---- MODULE Spec2Model ----
(***************************************************************************)
(* Model of the Claude log ingestion engine of better-ccflare:             *)
(*   packages/claude-logs/src/parser.ts    (parseLine, parseJSONLContent)  *)
(*   packages/claude-logs/src/service.ts   (ClaudeLogsService and the      *)
(*                                          scanner functions it imports)  *)
(*   packages/claude-logs/src/watcher.ts   (ClaudeLogWatcher)              *)
(*   packages/database/.../claude-logs.repository.ts (ClaudeLogsRepository)*)
(*                                                                         *)
(* An async function is a process that advances from one await to the      *)
(* next; each action below is the code between two awaits.                 *)
(***************************************************************************)
EXTENDS Integers, Sequences, FiniteSets, TLC

\* ---------------------------------------------------------------- bounds
\* scan-and-persist sequences that may be in flight at once
MaxProcs == 2
\* lines a log file may hold
MaxLines == 2
\* changes the external log producer makes to the file system
MaxFsOps == 2
\* exceptions the database may throw
MaxFailures == 1
\* asynchronous calls (scans, initializations, watch callbacks) started
MaxCalls == 3
\* raw notifications delivered by the operating system (watcher specification)
MaxRaw == 4
\* entries in one saveEntries batch of the repository specification
MaxBatch == 2
\* initialize() and dispose() calls of the lifecycle specification
MaxOps == 4

\* ------------------------------------------------------- program constants
DEBOUNCE_MS == 500
DEFAULT_SCAN_INTERVAL_MS == 60000

\* ------------------------------------------------------------- raw lines
\* A line of a .jsonl file.  k = "blank": empty or whitespace only;
\* k = "notjson": text JSON.parse rejects; k = "json": an object.  A string
\* field that is absent is "", a numeric field that is absent is <<>> and a
\* present one is <<n>>.
BlankLine == [k |-> "blank", uuid |-> "", sessionId |-> "", timestamp |-> "", role |-> "", model |-> "", input_tokens |-> <<>>, output_tokens |-> <<>>, cache_creation_input_tokens |-> <<>>, cache_read_input_tokens |-> <<>>, totalTokens |-> <<>>, costUSD |-> <<>>, gitBranch |-> "", cwd |-> ""]

NotJsonLine == [BlankLine EXCEPT !.k = "notjson"]

JsonLine(u, s, t) == [BlankLine EXCEPT !.k = "json", !.uuid = u, !.sessionId = s, !.timestamp = t]

\* new Date(s).getTime(): the epoch milliseconds of an ISO-8601 string, NaN
\* for anything else.
NaN == -1

DateParse(s) == CASE s = "1969-12-31T23:00:00.000Z" -> -3600000 [] s = "1970-01-01T00:00:00.000Z" -> 0 [] s = "1970-01-01T04:59:59.999Z" -> 17999999 [] s = "1970-01-01T05:00:00.000Z" -> 18000000 [] OTHER -> NaN

\* x || 0 for an optional number
OrZero(m) == IF m = <<>> THEN 0 ELSE m[1]

\* x || null for an optional string
OrNull(s) == IF s = "" THEN "null" ELSE s

NoEntry == [uuid |-> "", sessionId |-> "", projectPath |-> <<>>, timestamp |-> 0, role |-> "", model |-> "", inputTokens |-> 0, outputTokens |-> 0, cacheCreationInputTokens |-> 0, cacheReadInputTokens |-> 0, totalTokens |-> 0, costUsd |-> 0, gitBranch |-> "", cwd |-> "", filePath |-> <<>>, fileModifiedAt |-> 0]

NoError == [filePath |-> <<>>, line |-> 0, error |-> ""]

ScanErr(filePath, lineNumber, msg) == [filePath |-> filePath, line |-> lineNumber, error |-> msg]

\* a parseLine that takes the total from the input when the input has one
parseLineTrustsTotal(line, filePath, projectPath, fileModifiedAt, lineNumber) ==
  IF line.k = "blank" THEN [entry |-> NoEntry, error |-> NoError]
  ELSE IF line.k = "notjson" THEN [entry |-> NoEntry, error |-> ScanErr(filePath, lineNumber, "JSON parse error")]
  ELSE IF line.uuid = "" \/ line.sessionId = "" \/ line.timestamp = ""
    THEN [entry |-> NoEntry, error |-> ScanErr(filePath, lineNumber, "Missing required fields (uuid, sessionId, or timestamp)")]
  ELSE IF DateParse(line.timestamp) = NaN
    THEN [entry |-> NoEntry, error |-> ScanErr(filePath, lineNumber, "Invalid timestamp")]
  ELSE LET inputTokens == OrZero(line.input_tokens)
           outputTokens == OrZero(line.output_tokens)
           cacheCreationInputTokens == OrZero(line.cache_creation_input_tokens)
           cacheReadInputTokens == OrZero(line.cache_read_input_tokens)
       IN [entry |-> [uuid |-> line.uuid,
                      sessionId |-> line.sessionId,
                      projectPath |-> projectPath,
                      timestamp |-> DateParse(line.timestamp),
                      role |-> IF line.role = "" THEN "unknown" ELSE line.role,
                      model |-> OrNull(line.model),
                      inputTokens |-> inputTokens,
                      outputTokens |-> outputTokens,
                      cacheCreationInputTokens |-> cacheCreationInputTokens,
                      cacheReadInputTokens |-> cacheReadInputTokens,
                      totalTokens |-> IF line.totalTokens # <<>> THEN line.totalTokens[1] ELSE inputTokens + outputTokens + cacheCreationInputTokens + cacheReadInputTokens,
                      costUsd |-> OrZero(line.costUSD),
                      gitBranch |-> OrNull(line.gitBranch),
                      cwd |-> OrNull(line.cwd),
                      filePath |-> filePath,
                      fileModifiedAt |-> fileModifiedAt],
           error |-> NoError]

\* a parseLine that hands back what it had read of a line it reports
parseLineKeepsPartial(line, filePath, projectPath, fileModifiedAt, lineNumber) ==
  IF line.k = "blank" THEN [entry |-> NoEntry, error |-> NoError]
  ELSE IF line.k = "notjson" THEN [entry |-> NoEntry, error |-> ScanErr(filePath, lineNumber, "JSON parse error")]
  ELSE IF line.uuid = "" \/ line.sessionId = "" \/ line.timestamp = "" \/ DateParse(line.timestamp) = NaN
    THEN [entry |-> [NoEntry EXCEPT !.uuid = line.uuid, !.sessionId = line.sessionId, !.filePath = filePath], error |-> ScanErr(filePath, lineNumber, "Invalid line")]
  ELSE [entry |-> [NoEntry EXCEPT !.uuid = line.uuid, !.sessionId = line.sessionId, !.projectPath = projectPath, !.timestamp = DateParse(line.timestamp), !.role = "unknown", !.model = "null", !.gitBranch = "null", !.cwd = "null", !.filePath = filePath, !.fileModifiedAt = fileModifiedAt],
        error |-> NoError]

\* parseLine: <<entry, error>>, NoEntry / NoError standing for null.
parseLine(line, filePath, projectPath, fileModifiedAt, lineNumber) ==
  IF line.k = "blank" THEN [entry |-> NoEntry, error |-> NoError]
  ELSE IF line.k = "notjson" THEN [entry |-> NoEntry, error |-> ScanErr(filePath, lineNumber, "JSON parse error")]
  ELSE IF line.uuid = "" \/ line.sessionId = "" \/ line.timestamp = ""
    THEN [entry |-> NoEntry, error |-> ScanErr(filePath, lineNumber, "Missing required fields (uuid, sessionId, or timestamp)")]
  ELSE IF DateParse(line.timestamp) = NaN
    THEN [entry |-> NoEntry, error |-> ScanErr(filePath, lineNumber, "Invalid timestamp")]
  ELSE LET inputTokens == OrZero(line.input_tokens)
           outputTokens == OrZero(line.output_tokens)
           cacheCreationInputTokens == OrZero(line.cache_creation_input_tokens)
           cacheReadInputTokens == OrZero(line.cache_read_input_tokens)
       IN [entry |-> [uuid |-> line.uuid,
                      sessionId |-> line.sessionId,
                      projectPath |-> projectPath,
                      timestamp |-> DateParse(line.timestamp),
                      role |-> IF line.role = "" THEN "unknown" ELSE line.role,
                      model |-> OrNull(line.model),
                      inputTokens |-> inputTokens,
                      outputTokens |-> outputTokens,
                      cacheCreationInputTokens |-> cacheCreationInputTokens,
                      cacheReadInputTokens |-> cacheReadInputTokens,
                      totalTokens |-> inputTokens + outputTokens + cacheCreationInputTokens + cacheReadInputTokens,
                      costUsd |-> OrZero(line.costUSD),
                      gitBranch |-> OrNull(line.gitBranch),
                      cwd |-> OrNull(line.cwd),
                      filePath |-> filePath,
                      fileModifiedAt |-> fileModifiedAt],
           error |-> NoError]

\* content.split("\n"): a file is held as the sequence of its newline-
\* terminated lines, so the split yields them and one empty last segment.
SplitLines(content) == content \o <<BlankLine>>

RECURSIVE ParseFromAborts(_, _, _, _, _, _)
\* a batch loop that stops at the first line in error
ParseFromAborts(lines, i, filePath, projectPath, fileModifiedAt, acc) ==
  IF i >= Len(lines) THEN acc
  ELSE LET r == parseLine(lines[i + 1], filePath, projectPath, fileModifiedAt, i + 1)
       IN IF r.error # NoError THEN [acc EXCEPT !.errors = Append(acc.errors, r.error)]
          ELSE ParseFromAborts(lines, i + 1, filePath, projectPath, fileModifiedAt, [acc EXCEPT !.entries = IF r.entry # NoEntry THEN Append(acc.entries, r.entry) ELSE acc.entries])

RECURSIVE ParseFrom(_, _, _, _, _, _)
\* the loop  for (i = i0; i < lines.length; i++)  of both batch parsers; i is
\* the 0-based index, the line number reported is i + 1
ParseFrom(lines, i, filePath, projectPath, fileModifiedAt, acc) ==
  IF i >= Len(lines) THEN acc
  ELSE LET r == parseLine(lines[i + 1], filePath, projectPath, fileModifiedAt, i + 1)
           e1 == IF r.entry # NoEntry THEN Append(acc.entries, r.entry) ELSE acc.entries
           e2 == IF r.error # NoError THEN Append(acc.errors, r.error) ELSE acc.errors
       IN ParseFrom(lines, i + 1, filePath, projectPath, fileModifiedAt, [acc EXCEPT !.entries = e1, !.errors = e2])

parseJSONLContent(content, filePath, projectPath, fileModifiedAt) ==
  ParseFrom(SplitLines(content), 0, filePath, projectPath, fileModifiedAt, [entries |-> <<>>, errors |-> <<>>, lineCount |-> Len(SplitLines(content))])

\* a parser from an offset that cuts the lines before the offset off and
\* numbers the rest from 1
parseJSONLContentFromLineRenumbers(content, filePath, projectPath, fileModifiedAt, startLine) ==
  ParseFrom(SubSeq(SplitLines(content), startLine + 1, Len(SplitLines(content))), 0, filePath, projectPath, fileModifiedAt, [entries |-> <<>>, errors |-> <<>>, lineCount |-> Len(SplitLines(content))])

parseJSONLContentFromLine(content, filePath, projectPath, fileModifiedAt, startLine) ==
  ParseFrom(SplitLines(content), startLine, filePath, projectPath, fileModifiedAt, [entries |-> <<>>, errors |-> <<>>, lineCount |-> Len(SplitLines(content))])

\* getClaudeConfigDirs has not been called
NoDirs == [called |-> FALSE, envDirs |-> <<>>, existing |-> {}, dirs |-> <<>>]

\* no page of sessions has been asked for
NoListing == [state |-> "none", limit |-> 0, project |-> <<>>, offset |-> 0, sessions |-> <<>>, totalCount |-> 0]

\* no interval timer and no subscription
NoHandles == [intervals |-> 0, subscriptions |-> 0]

\* no totals have been asked for
NoTotals == [asked |-> FALSE, entryCount |-> 0, cost |-> 0, blocks |-> <<>>, projects |-> <<>>]

\* no billing query has been made
NoUsage == [startTime |-> <<>>, endTime |-> <<>>, blocks |-> <<>>]

\* no parser has been called
NoResult == [entries |-> <<>>, errors |-> <<>>, lineCount |-> 0]

\* ----------------------------------------------------------- file system
\* A file path is the sequence of its segments below <configDir>/projects.
Files == {<<"app1", "s1.jsonl">>, <<"app2", "s2.jsonl">>}

\* readdir order of findJSONLFiles
FileOrder == <<(<<"app1", "s1.jsonl">>), (<<"app2", "s2.jsonl">>)>>

NoFile == <<>>

\* extractProjectPath: every segment but the file name, "unknown" when the
\* file lies directly in the projects directory
extractProjectPath(filePath) == IF Len(filePath) > 1 THEN SubSeq(filePath, 1, Len(filePath) - 1) ELSE <<"unknown">>

\* uuids the log producer gives to the records it writes, in order
UuidOf(n) == <<"a", "b", "c", "d", "e", "f", "g", "h">>[n]

VARIABLES disk, fsOps, nextUuid

VARIABLES entriesTable, filesTable, dbFailures

VARIABLES processedFiles, initialized, scanIntervalTimer, options, procs, calls

VARIABLES isWatching, watchers, debounceTimers

\* history of the watcher specification, per path: the milliseconds since
\* the last raw notification (NoTimer: none in this run of the watcher, capped
\* at DEBOUNCE_MS), the bursts begun, the events emitted, the bursts whose
\* timer stop() cancelled; and the raw notifications delivered in all
VARIABLES sinceRaw, burstCount, emitCount, cancelCount, rawCount

\* history of the repository specification: the argument of the last
\* saveEntries call
VARIABLES batch

\* the parser specification: the content handed to a batch parser, the line
\* offset, what the parser returned (NoResult before the call) and which
\* parser it was ("none", "all", "from")
VARIABLES parseInput, parseStart, parseResult, parsed

\* the billing specification: the last getBillingBlockUsage call, its two
\* optional arguments and the blocks it returned
VARIABLES usage

\* the session specification: a client's paging through getSessionUsage (its
\* limit and project filter, the next offset, the rows and the totalCount
\* of the pages fetched so far)
VARIABLES listing

\* the totals specification: what the last round of getTotalEntryCount,
\* getTotalCost, getBillingBlockUsage() and getProjects() returned
VARIABLES totals

\* the config directory specification: the value of CLAUDE_CONFIG_DIR split
\* at its commas, the paths that exist, and the last getClaudeConfigDirs call
\* (the environment and paths it saw, what it returned)
VARIABLES envDirs, onDisk, lastDirs

\* history of the lifecycle specification: the initialize() and dispose()
\* calls made, in order
VARIABLES ops

\* history of the deletion path: the files that were missing when the
\* watch-triggered deletion of their entries completed and have not come
\* back since
VARIABLES deleted

\* history of the timers and subscriptions: the interval timers set and not
\* cleared, the directory subscriptions made and not closed
VARIABLES handles

fsVars == <<disk, fsOps, nextUuid>>

dbVars == <<entriesTable, filesTable, dbFailures>>

svcVars == <<processedFiles, initialized, scanIntervalTimer, options, procs, calls>>

watchVars == <<isWatching, watchers, debounceTimers>>

lifeHist == <<ops>>

parseVars == <<parseInput, parseStart, parseResult, parsed>>

queryVars == <<usage, listing, totals>>

pathVars == <<envDirs, onDisk, lastDirs>>

\* the history that the file system and the deletion path leave alone
otherHist == <<sinceRaw, burstCount, emitCount, cancelCount, rawCount, batch, lifeHist, parseVars, queryVars, pathVars>>

histVars == <<otherHist, deleted, handles>>

vars == <<fsVars, dbVars, svcVars, watchVars, histVars>>

\* bytes of one line with its newline
LineBytes(line) == IF line.k = "blank" THEN 1 ELSE IF line.k = "notjson" THEN 2 ELSE 3

RECURSIVE ByteSize(_)
ByteSize(content) == IF content = <<>> THEN 0 ELSE LineBytes(Head(content)) + ByteSize(Tail(content))

NoStat == [mtimeMs |-> -1, size |-> -1]

\* fs.stat of an existing file
Stat(f) == [mtimeMs |-> disk[f].mtime, size |-> ByteSize(disk[f].content)]

\* a valid record with the next uuid
ValidLine == JsonLine(UuidOf(nextUuid), "s1", "1970-01-01T00:00:00.000Z")

\* the records the log producer writes
ProducerLines == {ValidLine, NotJsonLine, BlankLine}

\* the log producer appends one line, creating the file when it is missing
FsAppend(f, line) ==
  /\ fsOps < MaxFsOps
  /\ Len(disk[f].content) < MaxLines
  /\ disk' = [disk EXCEPT ![f] = [exists |-> TRUE, content |-> Append(disk[f].content, line), mtime |-> fsOps + 1]]
  /\ fsOps' = fsOps + 1
  /\ nextUuid' = IF line.k = "json" THEN nextUuid + 1 ELSE nextUuid
  /\ deleted' = deleted \ {f}
  /\ UNCHANGED <<otherHist, handles, dbVars, svcVars, watchVars>>

\* the file is removed
FsDelete(f) ==
  /\ fsOps < MaxFsOps
  /\ disk[f].exists
  /\ disk' = [disk EXCEPT ![f] = [exists |-> FALSE, content |-> <<>>, mtime |-> 0]]
  /\ fsOps' = fsOps + 1
  /\ UNCHANGED <<histVars, nextUuid, dbVars, svcVars, watchVars>>

\* the file's modification time is set to an earlier time (utimes, a restore
\* that keeps times), its content staying as it is
FsUtimes(f, t) ==
  /\ fsOps < MaxFsOps
  /\ disk[f].exists
  /\ t < disk[f].mtime
  /\ disk' = [disk EXCEPT ![f].mtime = t]
  /\ fsOps' = fsOps + 1
  /\ UNCHANGED <<histVars, nextUuid, dbVars, svcVars, watchVars>>

\* ------------------------------------------------------------ repository
\* no ProcessedFile record (undefined).  A record's field scanned is history:
\* the content that the scan which wrote the record had read; processedAt
\* (Date.now()) is left out, nothing reads it.
NoPF == [filePath |-> NoFile, lastModifiedAt |-> -1, lastSize |-> -1, lastLineCount |-> -1, scanned |-> <<>>]

EmptyMap == [f \in Files |-> NoPF]

\* the uniqueness key of table claude_log_entries
PrimaryKey(row) == row.uuid

\* A table is a bag of rows: the rows stored and how many copies of each.
Rows(table) == DOMAIN table

NoRows == << >>

\* (mutation) a plain INSERT: the row is added beside the rows in conflict
InsertPlain(table, entry) == [r \in Rows(table) \cup {entry} |-> IF r = entry THEN (IF entry \in Rows(table) THEN table[entry] + 1 ELSE 1) ELSE table[r]]

\* INSERT OR REPLACE INTO claude_log_entries: the rows in conflict on the key
\* are deleted and the new row is inserted
InsertOrReplace(table, entry) == [r \in {x \in Rows(table) : PrimaryKey(x) # PrimaryKey(entry)} \cup {entry} |-> IF r = entry THEN 1 ELSE table[r]]

RECURSIVE saveEntriesFrom(_, _, _)
\* the transaction body: for (const entry of entries) insertStmt.run(...)
saveEntriesFrom(table, entries, i) == IF i > Len(entries) THEN table ELSE saveEntriesFrom(InsertOrReplace(table, entries[i]), entries, i + 1)

\* saveEntries, committed
saveEntries(table, entries) == IF Len(entries) = 0 THEN table ELSE saveEntriesFrom(table, entries, 1)

\* markFileProcessed: INSERT OR REPLACE INTO claude_processed_files, keyed by
\* file_path
markFileProcessed(table, file) == [table EXCEPT ![file.filePath] = file]

\* a first statement with no WHERE clause
deleteEveryLogRow(table, filePath) == NoRows

\* deleteEntriesFromFile, first statement
deleteLogRows(table, filePath) == [r \in {x \in Rows(table) : x.filePath # filePath} |-> table[r]]

\* (mutation) the second DELETE is forgotten
keepFileRow(table, filePath) == table

\* deleteEntriesFromFile, second statement
deleteFileRow(table, filePath) == [table EXCEPT ![filePath] = NoPF]

\* --------------------------------------------------------------- watcher
NoTimer == -1

\* getClaudeConfigDirs(): the projects directories found (one here)
ConfigDirs == {"projects"}

\* ClaudeLogWatcher.start: one subscription per projects directory (one
\* config directory here); a subscription that cannot be made is logged and
\* left out.  w is the watcher's state, configDirs what getClaudeConfigDirs()
\* returns, subscribed the directories whose watch() call succeeds.
WatcherStart(w, configDirs, subscribed) == IF w.isWatching \/ configDirs = {} THEN w ELSE [w EXCEPT !.watchers = w.watchers \cup (subscribed \cap configDirs), !.isWatching = TRUE]

\* the watch() calls that this start() makes and that succeed
Subscribed(w, configDirs, subscribed) == IF w.isWatching \/ configDirs = {} THEN 0 ELSE Cardinality(subscribed \cap configDirs)

\* a stop() that closes the subscriptions and leaves the timers armed
WatcherStopKeepsTimers(w) == [watchers |-> {}, debounceTimers |-> w.debounceTimers, isWatching |-> FALSE]

\* ClaudeLogWatcher.stop
WatcherStop(w) == [watchers |-> {}, debounceTimers |-> [f \in Files |-> NoTimer], isWatching |-> FALSE]

\* a handleFileEvent that leaves a running timer as it is
handleFileEventKeepsTimer(timers, filePath) == IF timers[filePath] # NoTimer THEN timers ELSE [timers EXCEPT ![filePath] = DEBOUNCE_MS]

\* ClaudeLogWatcher.handleFileEvent: clear the path's timer and arm a new
\* one; a timer is held as the milliseconds left until it fires
handleFileEvent(timers, filePath) == [timers EXCEPT ![filePath] = DEBOUNCE_MS]

\* the body of the debounce timer's callback, before emitEvent
TimerCallback(timers, filePath) == [timers EXCEPT ![filePath] = NoTimer]

WatcherState == [watchers |-> watchers, debounceTimers |-> debounceTimers, isWatching |-> isWatching]

SetWatcher(w) ==
  /\ watchers' = w.watchers
  /\ debounceTimers' = w.debounceTimers
  /\ isWatching' = w.isWatching

\* --------------------------------------------------------------- service
Procs == 1..MaxProcs

IdleProc == [kind |-> "none", caller |-> "none", pc |-> "idle", target |-> NoFile, tmp |-> EmptyMap, todo |-> <<>>, fileStat |-> NoStat, processed |-> NoPF, entries |-> <<>>, errors |-> <<>>, filesProcessed |-> 0, filesSkipped |-> 0, marks |-> <<>>, saved |-> FALSE, readFiles |-> {}, content |-> [f \in Files |-> <<>>], seen |-> [f \in Files |-> NoPF]]

\* the constructor's defaults
DefaultOptions == [watchEnabled |-> FALSE, scanOnStartup |-> TRUE, scanIntervalMs |-> DEFAULT_SCAN_INTERVAL_MS]

FreeSlots == {p \in Procs : procs[p].pc = "idle"}

\* the slot a new asynchronous call runs in
NewSlot == CHOOSE p \in FreeSlots : \A q \in FreeSlots : p <= q

Init ==
  /\ disk = [f \in Files |-> [exists |-> FALSE, content |-> <<>>, mtime |-> 0]]
  /\ fsOps = 0
  /\ nextUuid = 1
  /\ entriesTable = NoRows
  /\ filesTable = EmptyMap
  /\ dbFailures = <<>>
  /\ processedFiles = EmptyMap
  /\ initialized = FALSE
  /\ scanIntervalTimer = FALSE
  /\ options = DefaultOptions
  /\ procs = [p \in Procs |-> IdleProc]
  /\ calls = 0
  /\ isWatching = FALSE
  /\ watchers = {}
  /\ debounceTimers = [f \in Files |-> NoTimer]
  /\ sinceRaw = [f \in Files |-> NoTimer]
  /\ burstCount = [f \in Files |-> 0]
  /\ emitCount = [f \in Files |-> 0]
  /\ cancelCount = [f \in Files |-> 0]
  /\ rawCount = 0
  /\ batch = <<>>
  /\ ops = <<>>
  /\ deleted = {}
  /\ handles = NoHandles
  /\ parseInput = <<>>
  /\ parseStart = 0
  /\ parseResult = NoResult
  /\ parsed = "none"
  /\ usage = NoUsage
  /\ listing = NoListing
  /\ totals = NoTotals
  /\ envDirs = <<>>
  /\ onDisk = {}
  /\ lastDirs = NoDirs

\* start an asynchronous scan in a free slot
StartProc(kind, caller, pc, target) ==
  /\ calls < MaxCalls
  /\ calls' = calls + 1
  /\ procs' = [procs EXCEPT ![NewSlot] = [IdleProc EXCEPT !.kind = kind, !.caller = caller, !.pc = pc, !.target = target]]

\* POST /api/usage/scan: scanAndImport() up to its first await
ScanAndImportCall ==
  /\ FreeSlots # {}
  /\ StartProc("full", "manual", "list", NoFile)
  /\ UNCHANGED <<histVars, fsVars, dbVars, watchVars, processedFiles, initialized, scanIntervalTimer, options>>

\* the setInterval callback of startPeriodicScan: incrementalScan() up to its
\* first await
TimerTick ==
  /\ scanIntervalTimer
  /\ FreeSlots # {}
  /\ StartProc("incr", "timer", "list", NoFile)
  /\ UNCHANGED <<histVars, fsVars, dbVars, watchVars, processedFiles, initialized, scanIntervalTimer, options>>

\* an initialize() that does not look at this.initialized
InitializeAgain(opts) ==
  /\ FreeSlots # {}
  /\ options' = opts
  /\ StartProc("none", "init", "load", NoFile)
  /\ UNCHANGED <<fsVars, dbVars, watchVars, processedFiles, initialized, scanIntervalTimer>>

\* initialize(options) up to  await this.repository.getProcessedFiles()
InitializeBody(opts) ==
  /\ IF initialized
       THEN UNCHANGED <<options, procs, calls>>
       ELSE /\ FreeSlots # {}
            /\ options' = opts
            /\ StartProc("none", "init", "load", NoFile)
  /\ UNCHANGED <<fsVars, dbVars, watchVars, processedFiles, initialized, scanIntervalTimer>>

InitializeCall(opts) ==
  /\ InitializeBody(opts)
  /\ UNCHANGED histVars

\* an initialize() whose startPeriodicScan() sets a new interval timer over
\* the one that runs
InitTailArmsAgain(subscribed) ==
  /\ SetWatcher(IF options.watchEnabled THEN WatcherStart(WatcherState, ConfigDirs, subscribed) ELSE WatcherState)
  /\ scanIntervalTimer' = (scanIntervalTimer \/ options.scanIntervalMs > 0)
  /\ handles' = [intervals |-> handles.intervals + (IF options.scanIntervalMs > 0 THEN 1 ELSE 0),
                 subscriptions |-> handles.subscriptions + (IF options.watchEnabled THEN Subscribed(WatcherState, ConfigDirs, subscribed) ELSE 0)]
  /\ initialized' = TRUE

\* the rest of initialize() after the startup scan: startWatching(),
\* startPeriodicScan(), initialized = true
InitTail(subscribed) ==
  /\ SetWatcher(IF options.watchEnabled THEN WatcherStart(WatcherState, ConfigDirs, subscribed) ELSE WatcherState)
  /\ scanIntervalTimer' = (scanIntervalTimer \/ options.scanIntervalMs > 0)
  /\ handles' = [intervals |-> handles.intervals + (IF options.scanIntervalMs > 0 /\ ~scanIntervalTimer THEN 1 ELSE 0),
                 subscriptions |-> handles.subscriptions + (IF options.watchEnabled THEN Subscribed(WatcherState, ConfigDirs, subscribed) ELSE 0)]
  /\ initialized' = TRUE

\* an initialize() that starts the watcher and the timer before its startup
\* scan
InitLoadStartsFirst(p, subscribed) ==
  /\ procs[p].pc = "load"
  /\ processedFiles' = filesTable
  /\ procs' = [procs EXCEPT ![p] = IF options.scanOnStartup THEN [procs[p] EXCEPT !.kind = "full", !.pc = "list"] ELSE IdleProc]
  /\ InitTail(subscribed)
  /\ UNCHANGED <<otherHist, deleted, fsVars, dbVars, options, calls>>

\* initialize(): getProcessedFiles() has answered
InitLoad(p, subscribed) ==
  /\ procs[p].pc = "load"
  /\ processedFiles' = filesTable
  /\ IF options.scanOnStartup
       THEN /\ procs' = [procs EXCEPT ![p].kind = "full", ![p].pc = "list"]
            /\ UNCHANGED <<watchVars, scanIntervalTimer, initialized, handles>>
       ELSE /\ procs' = [procs EXCEPT ![p] = IdleProc]
            /\ InitTail(subscribed)
  /\ UNCHANGED <<otherHist, deleted, fsVars, dbVars, options, calls>>

\* initialize(): scanAndImport() has returned
InitFinish(p, subscribed) ==
  /\ procs[p].pc = "finish"
  /\ procs' = [procs EXCEPT ![p] = IdleProc]
  /\ InitTail(subscribed)
  /\ UNCHANGED <<otherHist, deleted, fsVars, dbVars, options, processedFiles, calls>>

\* ---------------------------------------------------------------- scanner
\* findJSONLFiles: the .jsonl files present, in directory order
RECURSIVE findJSONLFiles(_)
findJSONLFiles(i) == IF i > Len(FileOrder) THEN <<>> ELSE (IF disk[FileOrder[i]].exists THEN <<FileOrder[i]>> ELSE <<>>) \o findJSONLFiles(i + 1)

\* the map a scan consults: none in a full scan, the service's own map (by
\* reference) in incrementalScan, the temporary copy in processModifiedFile
ScanMap(p) == IF procs[p].kind = "watch" THEN procs[p].tmp ELSE IF procs[p].kind = "incr" THEN processedFiles ELSE EmptyMap

\* scanModifiedFiles: "Skip if file hasn't changed"
Unchanged(processed, fileStat) == processed # NoPF /\ processed.lastModifiedAt >= fileStat.mtimeMs /\ processed.lastSize = fileStat.size

\* the parse of one file's content: from the stored line offset when the
\* file has a watermark, from line 0 otherwise
ParseFile(kind, processed, content, filePath, fileStat) ==
  IF kind # "full" /\ processed # NoPF /\ processed.lastLineCount > 0
    THEN parseJSONLContentFromLine(content, filePath, extractProjectPath(filePath), fileStat.mtimeMs, processed.lastLineCount)
    ELSE parseJSONLContent(content, filePath, extractProjectPath(filePath), fileStat.mtimeMs)

\* after one file of the loop: the next file, or the end of the scan
NextFile(pr) == [pr EXCEPT !.todo = Tail(pr.todo), !.pc = IF Len(pr.todo) > 1 THEN "stat" ELSE "save", !.fileStat = NoStat, !.processed = NoPF]

\* a per-file catch block that gives the scan up
FileFailedThrows(pr) == IdleProc

\* the catch block of the per-file try
FileFailed(pr) == NextFile([pr EXCEPT !.errors = Append(pr.errors, ScanErr(Head(pr.todo), 0, "Failed to read file")), !.filesSkipped = pr.filesSkipped + 1])

\* findJSONLFiles(projectsDir) has answered
ScanList(p) ==
  /\ procs[p].pc = "list"
  /\ LET found == findJSONLFiles(1)
     IN procs' = [procs EXCEPT ![p].todo = found, ![p].pc = IF found = <<>> THEN "save" ELSE "stat"]
  /\ UNCHANGED <<histVars, fsVars, dbVars, watchVars, processedFiles, initialized, scanIntervalTimer, options, calls>>

\* stat(filePath) has answered; the skip test of scanModifiedFiles
ScanStat(p) ==
  /\ procs[p].pc = "stat"
  /\ LET pr == procs[p]
         f == Head(pr.todo)
         processed == ScanMap(p)[f]
     IN procs' = [procs EXCEPT ![p] =
          IF ~disk[f].exists THEN FileFailed(pr)
          ELSE IF pr.kind # "full" /\ Unchanged(processed, Stat(f))
            THEN NextFile([pr EXCEPT !.filesSkipped = pr.filesSkipped + 1])
          ELSE [pr EXCEPT !.pc = "read", !.fileStat = Stat(f), !.processed = processed]]
  /\ UNCHANGED <<histVars, fsVars, dbVars, watchVars, processedFiles, initialized, scanIntervalTimer, options, calls>>

\* readFile(filePath) has answered; the content is parsed
ScanRead(p) ==
  /\ procs[p].pc = "read"
  /\ LET pr == procs[p]
         f == Head(pr.todo)
         result == ParseFile(pr.kind, pr.processed, disk[f].content, f, pr.fileStat)
     IN procs' = [procs EXCEPT ![p] =
          IF ~disk[f].exists THEN FileFailed(pr)
          ELSE NextFile([pr EXCEPT !.entries = pr.entries \o result.entries,
                                   !.errors = pr.errors \o result.errors,
                                   !.filesProcessed = pr.filesProcessed + 1,
                                   !.readFiles = pr.readFiles \cup {f},
                                   !.content[f] = disk[f].content,
                                   !.seen[f] = pr.processed])]
  /\ UNCHANGED <<histVars, fsVars, dbVars, watchVars, processedFiles, initialized, scanIntervalTimer, options, calls>>

\* ------------------------------------------------------ scan persistence
RECURSIVE CountFor(_, _)
\* entries of one file in a scan result
CountFor(entries, f) == IF entries = <<>> THEN 0 ELSE (IF Head(entries).filePath = f THEN 1 ELSE 0) + CountFor(Tail(entries), f)

RECURSIVE FileKeys(_, _)
\* the keys of the Map fileEntries, in insertion order
FileKeys(entries, have) == IF entries = <<>> THEN <<>> ELSE IF Head(entries).filePath \in have THEN FileKeys(Tail(entries), have) ELSE <<Head(entries).filePath>> \o FileKeys(Tail(entries), have \cup {Head(entries).filePath})

\* updateProcessedFilesFromScan: "Group entries by file to get line counts"
FileEntries(entries) == [i \in 1..Len(FileKeys(entries, {})) |-> <<FileKeys(entries, {})[i], CountFor(entries, FileKeys(entries, {})[i])>>]

\* the end of a scan-and-persist sequence; initialize() goes on after a
\* startup scan that did not throw
EndProc(pr, ok) == IF pr.caller = "init" /\ ok THEN [IdleProc EXCEPT !.caller = "init", !.pc = "finish"] ELSE IdleProc

\* saveEntries has returned: updateProcessedFilesFromScan starts
SaveDone(pr) == [pr EXCEPT !.pc = "mark", !.marks = FileEntries(pr.entries), !.saved = TRUE]

\* (mutation) the exception of saveEntries is swallowed and the watermarks
\* are written all the same
SaveThrewSwallowed(pr) == [pr EXCEPT !.pc = "mark", !.marks = FileEntries(pr.entries)]

\* saveEntries has thrown: the exception leaves the scan
SaveThrew(pr) == EndProc(pr, FALSE)

\* a watermark that is the count of this scan alone, not added to the stored
\* one
NewProcessedFileReplaces(existing, filePath, metadata, entryCount, content) == [filePath |-> filePath, lastModifiedAt |-> metadata.mtimeMs, lastSize |-> metadata.size, lastLineCount |-> entryCount, scanned |-> content]

\* the ProcessedFile written for one file of fileEntries
NewProcessedFile(existing, filePath, metadata, entryCount, content) == [filePath |-> filePath, lastModifiedAt |-> metadata.mtimeMs, lastSize |-> metadata.size, lastLineCount |-> (IF existing = NoPF THEN 0 ELSE existing.lastLineCount) + entryCount, scanned |-> content]

\* after one file of updateProcessedFilesFromScan
NextMark(pr) == IF Len(pr.marks) > 1 THEN [pr EXCEPT !.marks = Tail(pr.marks)] ELSE EndProc(pr, TRUE)

\* the scan is over: nothing to save, so nothing to mark
ScanSaveNothing(p) ==
  /\ procs[p].pc = "save"
  /\ procs[p].entries = <<>>
  /\ procs' = [procs EXCEPT ![p] = EndProc(procs[p], TRUE)]
  /\ UNCHANGED <<histVars, fsVars, dbVars, watchVars, processedFiles, initialized, scanIntervalTimer, options, calls>>

\* the scan is over: saveEntries(result.entries) commits
ScanSave(p) ==
  /\ procs[p].pc = "save"
  /\ procs[p].entries # <<>>
  /\ entriesTable' = saveEntries(entriesTable, procs[p].entries)
  /\ procs' = [procs EXCEPT ![p] = SaveDone(procs[p])]
  /\ UNCHANGED <<histVars, fsVars, filesTable, dbFailures, watchVars, processedFiles, initialized, scanIntervalTimer, options, calls>>

\* the scan is over: saveEntries(result.entries) throws, its transaction
\* rolled back
ScanSaveFails(p) ==
  /\ procs[p].pc = "save"
  /\ procs[p].entries # <<>>
  /\ Len(dbFailures) < MaxFailures
  /\ dbFailures' = Append(dbFailures, <<"saveEntries", procs[p].caller>>)
  /\ procs' = [procs EXCEPT ![p] = SaveThrew(procs[p])]
  /\ UNCHANGED <<histVars, fsVars, entriesTable, filesTable, watchVars, processedFiles, initialized, scanIntervalTimer, options, calls>>

\* updateProcessedFilesFromScan, one file: getFileMetadata has answered, the
\* map is set and markFileProcessed writes the row
ScanMark(p) ==
  /\ procs[p].pc = "mark"
  /\ LET pr == procs[p]
         f == Head(pr.marks)[1]
         file == NewProcessedFile(processedFiles[f], f, Stat(f), Head(pr.marks)[2], pr.content[f])
     IN IF disk[f].exists
          THEN /\ processedFiles' = [processedFiles EXCEPT ![f] = file]
               /\ filesTable' = markFileProcessed(filesTable, file)
          ELSE UNCHANGED <<processedFiles, filesTable>>
  /\ procs' = [procs EXCEPT ![p] = NextMark(procs[p])]
  /\ UNCHANGED <<histVars, fsVars, entriesTable, dbFailures, watchVars, initialized, scanIntervalTimer, options, calls>>

\* updateProcessedFilesFromScan, one file: the map is set, then
\* markFileProcessed throws
ScanMarkFails(p) ==
  /\ procs[p].pc = "mark"
  /\ Len(dbFailures) < MaxFailures
  /\ LET pr == procs[p]
         f == Head(pr.marks)[1]
         file == NewProcessedFile(processedFiles[f], f, Stat(f), Head(pr.marks)[2], pr.content[f])
     IN /\ disk[f].exists
        /\ processedFiles' = [processedFiles EXCEPT ![f] = file]
  /\ dbFailures' = Append(dbFailures, <<"markFileProcessed", procs[p].caller>>)
  /\ procs' = [procs EXCEPT ![p] = EndProc(procs[p], FALSE)]
  /\ UNCHANGED <<histVars, fsVars, entriesTable, filesTable, watchVars, initialized, scanIntervalTimer, options, calls>>

\* ---------------------------------------------------- watch-triggered path
\* a debounced watch event for filePath reaches the service's callback: the
\* raw notification and its 500 ms in one step
WatchEvent(f) ==
  /\ watchers # {}
  /\ FreeSlots # {}
  /\ StartProc("watch", "watcher", "wstat", f)
  /\ UNCHANGED <<histVars, fsVars, dbVars, watchVars, processedFiles, initialized, scanIntervalTimer, options>>

\* a processModifiedFile that scans against the map as it is
WatchStatKeepsWatermark(p) ==
  /\ procs[p].pc = "wstat"
  /\ procs' = [procs EXCEPT ![p] =
       IF ~disk[procs[p].target].exists
         THEN [procs[p] EXCEPT !.pc = "delete"]
         ELSE [procs[p] EXCEPT !.pc = "list", !.tmp = processedFiles]]
  /\ UNCHANGED <<histVars, fsVars, dbVars, watchVars, processedFiles, initialized, scanIntervalTimer, options, calls>>

\* a processModifiedFile that evicts the path from the service's own map
WatchStatEvictsShared(p) ==
  /\ procs[p].pc = "wstat"
  /\ procs' = [procs EXCEPT ![p] =
       IF ~disk[procs[p].target].exists
         THEN [procs[p] EXCEPT !.pc = "delete"]
         ELSE [procs[p] EXCEPT !.pc = "list", !.tmp = [processedFiles EXCEPT ![procs[p].target] = NoPF]]]
  /\ processedFiles' = IF disk[procs[p].target].exists THEN [processedFiles EXCEPT ![procs[p].target] = NoPF] ELSE processedFiles
  /\ UNCHANGED <<histVars, fsVars, dbVars, watchVars, initialized, scanIntervalTimer, options, calls>>

\* processModifiedFile: getFileMetadata(filePath) has answered
WatchStat(p) ==
  /\ procs[p].pc = "wstat"
  /\ procs' = [procs EXCEPT ![p] =
       IF ~disk[procs[p].target].exists
         THEN [procs[p] EXCEPT !.pc = "delete"]
         ELSE [procs[p] EXCEPT !.pc = "list", !.tmp = [processedFiles EXCEPT ![procs[p].target] = NoPF]]]
  /\ UNCHANGED <<histVars, fsVars, dbVars, watchVars, processedFiles, initialized, scanIntervalTimer, options, calls>>

\* processModifiedFile, file missing: deleteEntriesFromFile returns and the
\* path leaves the map
WatchDelete(p) ==
  /\ procs[p].pc = "delete"
  /\ entriesTable' = deleteLogRows(entriesTable, procs[p].target)
  /\ filesTable' = deleteFileRow(filesTable, procs[p].target)
  /\ processedFiles' = [processedFiles EXCEPT ![procs[p].target] = NoPF]
  /\ procs' = [procs EXCEPT ![p] = IdleProc]
  /\ deleted' = IF disk[procs[p].target].exists THEN deleted ELSE deleted \cup {procs[p].target}
  /\ UNCHANGED <<otherHist, handles, fsVars, dbFailures, watchVars, initialized, scanIntervalTimer, options, calls>>

\* processModifiedFile, file missing: deleteEntriesFromFile throws, in its
\* first statement or in its second
WatchDeleteFails(p) ==
  /\ procs[p].pc = "delete"
  /\ Len(dbFailures) < MaxFailures
  /\ dbFailures' = Append(dbFailures, <<"deleteEntriesFromFile", procs[p].caller>>)
  /\ \/ entriesTable' = entriesTable
     \/ entriesTable' = deleteLogRows(entriesTable, procs[p].target)
  /\ procs' = [procs EXCEPT ![p] = IdleProc]
  /\ UNCHANGED <<histVars, fsVars, filesTable, watchVars, processedFiles, initialized, scanIntervalTimer, options, calls>>

\* the options the ingestion specification initializes the service with
ScanOptions == [watchEnabled |-> TRUE, scanOnStartup |-> TRUE, scanIntervalMs |-> DEFAULT_SCAN_INTERVAL_MS]

\* Ingestion: the file system changes while startup, manual, periodic and
\* watch-triggered scans run.
Next ==
  \/ \E f \in Files : \E line \in ProducerLines : FsAppend(f, line)
  \/ \E f \in Files : FsDelete(f)
  \/ ScanAndImportCall
  \/ TimerTick
  \/ InitializeCall(ScanOptions)
  \/ \E p \in Procs : InitLoad(p, ConfigDirs)
  \/ \E p \in Procs : InitFinish(p, ConfigDirs)
  \/ \E f \in Files : WatchEvent(f)
  \/ \E p \in Procs : ScanList(p)
  \/ \E p \in Procs : ScanStat(p)
  \/ \E p \in Procs : ScanRead(p)
  \/ \E p \in Procs : ScanSaveNothing(p)
  \/ \E p \in Procs : ScanSave(p)
  \/ \E p \in Procs : ScanSaveFails(p)
  \/ \E p \in Procs : ScanMark(p)
  \/ \E p \in Procs : ScanMarkFails(p)
  \/ \E p \in Procs : WatchStat(p)
  \/ \E p \in Procs : WatchDelete(p)
  \/ \E p \in Procs : WatchDeleteFails(p)

Spec == Init /\ [][Next]_vars

\* ----------------------------------------------- lifecycle specification
\* The service as its owner drives it: initialize() with either option set
\* and dispose() are called at any time, also while an earlier initialize()
\* is suspended, while valid records are written and scans run.
NoStartupOptions == [watchEnabled |-> FALSE, scanOnStartup |-> FALSE, scanIntervalMs |-> 0]

OptionSets == {ScanOptions, NoStartupOptions}

\* a call of initialize(options)
Initialize(opts) ==
  /\ Len(ops) < MaxOps
  /\ InitializeBody(opts)
  /\ ops' = Append(ops, "initialize")
  /\ UNCHANGED <<deleted, handles, parseVars, queryVars, pathVars, sinceRaw, burstCount, emitCount, cancelCount, rawCount, batch>>

\* a call of dispose()
Dispose ==
  /\ Len(ops) < MaxOps
  /\ SetWatcher(WatcherStop(WatcherState))
  /\ scanIntervalTimer' = FALSE
  /\ initialized' = FALSE
  /\ ops' = Append(ops, "dispose")
  /\ handles' = [intervals |-> handles.intervals - (IF scanIntervalTimer THEN 1 ELSE 0), subscriptions |-> 0]
  /\ UNCHANGED <<deleted, parseVars, queryVars, pathVars, sinceRaw, burstCount, emitCount, cancelCount, rawCount, batch, fsVars, dbVars, options, processedFiles, procs, calls>>

NextLife ==
  \/ \E f \in Files : FsAppend(f, ValidLine)
  \/ \E opts \in OptionSets : Initialize(opts)
  \/ Dispose
  \/ \E p \in Procs : InitLoad(p, ConfigDirs)
  \/ \E p \in Procs : InitFinish(p, ConfigDirs)
  \/ TimerTick
  \/ \E f \in Files : WatchEvent(f)
  \/ \E p \in Procs : ScanList(p)
  \/ \E p \in Procs : ScanStat(p)
  \/ \E p \in Procs : ScanRead(p)
  \/ \E p \in Procs : ScanSaveNothing(p)
  \/ \E p \in Procs : ScanSave(p)
  \/ \E p \in Procs : ScanSaveFails(p)
  \/ \E p \in Procs : ScanMark(p)
  \/ \E p \in Procs : WatchStat(p)
  \/ \E p \in Procs : WatchDelete(p)

SpecLife == Init /\ [][NextLife]_vars

\* ------------------------------------------- timer-and-watcher specification
\* The public calls that start and stop the timer and the watcher, in any
\* order and while initialize() is suspended, over an empty projects
\* directory.

\* startWatching()
StartWatching(subscribed) ==
  /\ Len(ops) < MaxOps
  /\ SetWatcher(WatcherStart(WatcherState, ConfigDirs, subscribed))
  /\ handles' = [handles EXCEPT !.subscriptions = @ + Subscribed(WatcherState, ConfigDirs, subscribed)]
  /\ ops' = Append(ops, "startWatching")
  /\ UNCHANGED <<deleted, parseVars, queryVars, pathVars, sinceRaw, burstCount, emitCount, cancelCount, rawCount, batch, fsVars, dbVars, svcVars>>

\* stopWatching()
StopWatching ==
  /\ Len(ops) < MaxOps
  /\ SetWatcher(WatcherStop(WatcherState))
  /\ handles' = [handles EXCEPT !.subscriptions = 0]
  /\ ops' = Append(ops, "stopWatching")
  /\ UNCHANGED <<deleted, parseVars, queryVars, pathVars, sinceRaw, burstCount, emitCount, cancelCount, rawCount, batch, fsVars, dbVars, svcVars>>

\* any options
AllOptions == [watchEnabled : BOOLEAN, scanOnStartup : BOOLEAN, scanIntervalMs : {0, DEFAULT_SCAN_INTERVAL_MS}]

NextTimers ==
  \/ \E opts \in AllOptions : Initialize(opts)
  \/ Dispose
  \/ \E subscribed \in SUBSET ConfigDirs : StartWatching(subscribed)
  \/ StopWatching
  \/ \E p \in Procs : \E subscribed \in SUBSET ConfigDirs : InitLoad(p, subscribed)
  \/ \E p \in Procs : \E subscribed \in SUBSET ConfigDirs : InitFinish(p, subscribed)
  \/ \E p \in Procs : ScanList(p)
  \/ \E p \in Procs : ScanSaveNothing(p)

SpecTimers == Init /\ [][NextTimers]_vars

\* ------------------------------------------ modification-time specification
\* Periodic scans over files that are appended to and whose modification
\* time may be set back.
NextTouch ==
  \/ \E f \in Files : FsAppend(f, ValidLine)
  \/ \E f \in Files : \E t \in 0..MaxFsOps : FsUtimes(f, t)
  \/ InitializeCall(ScanOptions)
  \/ \E p \in Procs : InitLoad(p, ConfigDirs)
  \/ \E p \in Procs : InitFinish(p, ConfigDirs)
  \/ TimerTick
  \/ \E p \in Procs : ScanList(p)
  \/ \E p \in Procs : ScanStat(p)
  \/ \E p \in Procs : ScanRead(p)
  \/ \E p \in Procs : ScanSaveNothing(p)
  \/ \E p \in Procs : ScanSave(p)
  \/ \E p \in Procs : ScanMark(p)

SpecTouch == Init /\ [][NextTouch]_vars

\* ------------------------------------------------- rewritten-file specification
\* Periodic scans over files that are appended to and that may be truncated
\* and written anew with fewer lines.
MaxRewrites == 1

\* the file is truncated and rewritten: one new record replaces its lines
FsRewrite(f) ==
  /\ fsOps < MaxFsOps + MaxRewrites
  /\ disk[f].exists
  /\ Len(disk[f].content) = MaxLines
  /\ disk' = [disk EXCEPT ![f] = [exists |-> TRUE, content |-> <<ValidLine>>, mtime |-> fsOps + 1]]
  /\ fsOps' = fsOps + 1
  /\ nextUuid' = nextUuid + 1
  /\ UNCHANGED <<histVars, dbVars, svcVars, watchVars>>

NextRewrite ==
  \/ \E f \in Files : FsAppend(f, ValidLine)
  \/ \E f \in Files : FsRewrite(f)
  \/ InitializeCall(ScanOptions)
  \/ \E p \in Procs : InitLoad(p, ConfigDirs)
  \/ \E p \in Procs : InitFinish(p, ConfigDirs)
  \/ TimerTick
  \/ \E p \in Procs : ScanList(p)
  \/ \E p \in Procs : ScanStat(p)
  \/ \E p \in Procs : ScanRead(p)
  \/ \E p \in Procs : ScanSaveNothing(p)
  \/ \E p \in Procs : ScanSave(p)
  \/ \E p \in Procs : ScanMark(p)

SpecRewrite == Init /\ [][NextRewrite]_vars

\* ------------------------------------------------- periodic-scan specification
\* The service is initialized, files are appended to, and the interval timer
\* goes on firing for as long as it is armed; no repository call fails.

\* the setInterval callback, fired any number of times (calls stops counting
\* at MaxCalls)
TimerTickOn ==
  /\ scanIntervalTimer
  /\ FreeSlots # {}
  /\ calls' = IF calls < MaxCalls THEN calls + 1 ELSE calls
  /\ procs' = [procs EXCEPT ![NewSlot] = [IdleProc EXCEPT !.kind = "incr", !.caller = "timer", !.pc = "list", !.target = NoFile]]
  /\ UNCHANGED <<histVars, fsVars, dbVars, watchVars, processedFiles, initialized, scanIntervalTimer, options>>

NextPeriodic ==
  \/ \E f \in Files : FsAppend(f, ValidLine)
  \/ InitializeCall(ScanOptions)
  \/ \E p \in Procs : InitLoad(p, ConfigDirs)
  \/ \E p \in Procs : InitFinish(p, ConfigDirs)
  \/ TimerTickOn
  \/ \E p \in Procs : ScanList(p)
  \/ \E p \in Procs : ScanStat(p)
  \/ \E p \in Procs : ScanRead(p)
  \/ \E p \in Procs : ScanSaveNothing(p)
  \/ \E p \in Procs : ScanSave(p)
  \/ \E p \in Procs : ScanMark(p)

\* the event loop runs every continuation that is ready, and the interval
\* timer fires while it is armed
FairPeriodic ==
  /\ WF_vars(TimerTickOn)
  /\ \A p \in Procs :
       /\ WF_vars(InitLoad(p, ConfigDirs))
       /\ WF_vars(InitFinish(p, ConfigDirs))
       /\ WF_vars(ScanList(p))
       /\ WF_vars(ScanStat(p))
       /\ WF_vars(ScanRead(p))
       /\ WF_vars(ScanSaveNothing(p))
       /\ WF_vars(ScanSave(p))
       /\ WF_vars(ScanMark(p))

SpecPeriodic == Init /\ [][NextPeriodic]_vars /\ FairPeriodic

\* ------------------------------------------------- watcher specification
\* ClaudeLogWatcher on its own, in time: the timers hold the milliseconds
\* left, time passes in steps of TimeStep, and a timer that is due fires
\* before time passes or another notification for its path is handled.
TimeStep == DEBOUNCE_MS \div 2

Pending(f) == debounceTimers[f] # NoTimer

\* start(), for each outcome of getClaudeConfigDirs() and of watch()
Start(configDirs, subscribed) ==
  /\ SetWatcher(WatcherStart(WatcherState, configDirs, subscribed))
  /\ handles' = [handles EXCEPT !.subscriptions = @ + Subscribed(WatcherState, configDirs, subscribed)]
  /\ UNCHANGED <<otherHist, deleted, fsVars, dbVars, svcVars>>

\* stop(); a burst whose timer it clears is counted as cancelled, and a
\* notification after it begins a new burst
Stop ==
  /\ SetWatcher(WatcherStop(WatcherState))
  /\ cancelCount' = [f \in Files |-> cancelCount[f] + (IF Pending(f) /\ debounceTimers'[f] = NoTimer THEN 1 ELSE 0)]
  /\ sinceRaw' = [f \in Files |-> NoTimer]
  /\ handles' = [handles EXCEPT !.subscriptions = 0]
  /\ UNCHANGED <<lifeHist, deleted, parseVars, queryVars, pathVars, burstCount, emitCount, rawCount, batch, fsVars, dbVars, svcVars>>

\* a subscription's callback: a raw notification for a .jsonl file reaches
\* handleFileEvent.  It begins a burst when none came before it or the last
\* one came DEBOUNCE_MS or more earlier.
FileEvent(f) ==
  /\ watchers # {}
  /\ rawCount < MaxRaw
  /\ debounceTimers[f] # 0
  /\ debounceTimers' = handleFileEvent(debounceTimers, f)
  /\ burstCount' = [burstCount EXCEPT ![f] = @ + (IF sinceRaw[f] = NoTimer \/ sinceRaw[f] >= DEBOUNCE_MS THEN 1 ELSE 0)]
  /\ sinceRaw' = [sinceRaw EXCEPT ![f] = 0]
  /\ rawCount' = rawCount + 1
  /\ UNCHANGED <<lifeHist, deleted, handles, parseVars, queryVars, pathVars, emitCount, cancelCount, batch, isWatching, watchers, fsVars, dbVars, svcVars>>

\* a debounce timer is due: its callback drops the timer and emitEvent
\* hands one event to the callbacks
TimerFires(f) ==
  /\ debounceTimers[f] = 0
  /\ debounceTimers' = TimerCallback(debounceTimers, f)
  /\ emitCount' = [emitCount EXCEPT ![f] = @ + 1]
  /\ UNCHANGED <<lifeHist, deleted, handles, parseVars, queryVars, pathVars, sinceRaw, burstCount, cancelCount, rawCount, batch, isWatching, watchers, fsVars, dbVars, svcVars>>

\* TimeStep milliseconds pass
Advance ==
  /\ \A f \in Files : debounceTimers[f] # 0
  /\ debounceTimers' = [f \in Files |-> IF Pending(f) THEN debounceTimers[f] - TimeStep ELSE NoTimer]
  /\ sinceRaw' = [f \in Files |-> IF sinceRaw[f] = NoTimer THEN NoTimer ELSE IF sinceRaw[f] + TimeStep > DEBOUNCE_MS THEN DEBOUNCE_MS ELSE sinceRaw[f] + TimeStep]
  /\ UNCHANGED <<lifeHist, deleted, handles, parseVars, queryVars, pathVars, burstCount, emitCount, cancelCount, rawCount, batch, isWatching, watchers, fsVars, dbVars, svcVars>>

NextWatcher ==
  \/ \E configDirs \in SUBSET ConfigDirs : \E subscribed \in SUBSET ConfigDirs : Start(configDirs, subscribed)
  \/ Stop
  \/ \E f \in Files : FileEvent(f)
  \/ \E f \in Files : TimerFires(f)
  \/ Advance

SpecWatcher == Init /\ [][NextWatcher]_vars

\* ---------------------------------------------- repository specification
\* ClaudeLogsRepository on its own: any batches are saved, any file's rows
\* deleted.
EntryOf(u, cost, f) == parseLine([JsonLine(u, "s1", "1970-01-01T00:00:00.000Z") EXCEPT !.costUSD = <<cost>>], f, extractProjectPath(f), 0, 1).entry

RepoEntries == {EntryOf(u, cost, f) : u \in {"a", "b"}, cost \in {1, 2}, f \in Files}

Batches == UNION {[1..n -> RepoEntries] : n \in 0..MaxBatch}

\* saveEntries(entries) commits
RepoSave(entries) ==
  /\ entriesTable' = saveEntries(entriesTable, entries)
  /\ batch' = entries
  /\ UNCHANGED <<lifeHist, deleted, handles, parseVars, queryVars, pathVars, filesTable, dbFailures, sinceRaw, burstCount, emitCount, cancelCount, rawCount, fsVars, svcVars, watchVars>>

\* deleteEntriesFromFile(filePath)
RepoDelete(f) ==
  /\ entriesTable' = deleteLogRows(entriesTable, f)
  /\ filesTable' = deleteFileRow(filesTable, f)
  /\ batch' = <<>>
  /\ UNCHANGED <<lifeHist, deleted, handles, parseVars, queryVars, pathVars, dbFailures, sinceRaw, burstCount, emitCount, cancelCount, rawCount, fsVars, svcVars, watchVars>>

NextRepo ==
  \/ \E entries \in Batches : RepoSave(entries)
  \/ \E f \in Files : RepoDelete(f)

SpecRepo == Init /\ [][NextRepo]_vars

\* ----------------------------------------------- saveEntries that can fail
\* a transaction whose writes stay when it throws
TransactionKeepsWrites(table, entries, failAt) == IF failAt = 0 THEN saveEntriesFrom(table, entries, 1) ELSE saveEntriesFrom(table, SubSeq(entries, 1, failAt - 1), 1)

\* this.db.transaction(body)(entries): the inserts of the body are committed
\* together, or, when the insert of entry number failAt throws, rolled back
\* together (failAt = 0: none throws)
Transaction(table, entries, failAt) == IF failAt = 0 THEN saveEntriesFrom(table, entries, 1) ELSE table

\* saveEntries(entries) throws at one of its inserts
RepoSaveFails(entries, failAt) ==
  /\ Len(dbFailures) < MaxFailures
  /\ failAt \in 1..Len(entries)
  /\ entriesTable' = Transaction(entriesTable, entries, failAt)
  /\ dbFailures' = Append(dbFailures, <<"saveEntries", "repository">>)
  /\ batch' = entries
  /\ UNCHANGED <<lifeHist, deleted, handles, parseVars, queryVars, pathVars, filesTable, sinceRaw, burstCount, emitCount, cancelCount, rawCount, fsVars, svcVars, watchVars>>

NextTx ==
  \/ \E entries \in Batches : RepoSave(entries)
  \/ \E entries \in Batches : \E failAt \in 1..MaxBatch : RepoSaveFails(entries, failAt)

SpecTx == Init /\ [][NextTx]_vars

\* ------------------------------------------ scans over files that vanish
\* The service is started over two log files written before it, the second
\* with a malformed line; files are removed and appended to while scans run.
InitFiles ==
  /\ disk = [f \in Files |-> [exists |-> TRUE, mtime |-> 0, content |-> IF f = FileOrder[1] THEN <<JsonLine("a", "s1", "1970-01-01T00:00:00.000Z")>> ELSE <<NotJsonLine, JsonLine("b", "s1", "1970-01-01T00:00:00.000Z")>>]]
  /\ fsOps = 0
  /\ nextUuid = 3
  /\ entriesTable = NoRows
  /\ filesTable = EmptyMap
  /\ dbFailures = <<>>
  /\ processedFiles = EmptyMap
  /\ initialized = FALSE
  /\ scanIntervalTimer = FALSE
  /\ options = DefaultOptions
  /\ procs = [p \in Procs |-> IdleProc]
  /\ calls = 0
  /\ isWatching = FALSE
  /\ watchers = {}
  /\ debounceTimers = [f \in Files |-> NoTimer]
  /\ sinceRaw = [f \in Files |-> NoTimer]
  /\ burstCount = [f \in Files |-> 0]
  /\ emitCount = [f \in Files |-> 0]
  /\ cancelCount = [f \in Files |-> 0]
  /\ rawCount = 0
  /\ batch = <<>>
  /\ ops = <<>>
  /\ deleted = {}
  /\ handles = NoHandles
  /\ parseInput = <<>>
  /\ parseStart = 0
  /\ parseResult = NoResult
  /\ parsed = "none"
  /\ usage = NoUsage
  /\ listing = NoListing
  /\ totals = NoTotals
  /\ envDirs = <<>>
  /\ onDisk = {}
  /\ lastDirs = NoDirs

NextFiles ==
  \/ \E f \in Files : FsAppend(f, ValidLine)
  \/ \E f \in Files : FsDelete(f)
  \/ ScanAndImportCall
  \/ TimerTick
  \/ InitializeCall(ScanOptions)
  \/ \E p \in Procs : InitLoad(p, ConfigDirs)
  \/ \E p \in Procs : InitFinish(p, ConfigDirs)
  \/ \E p \in Procs : ScanList(p)
  \/ \E p \in Procs : ScanStat(p)
  \/ \E p \in Procs : ScanRead(p)
  \/ \E p \in Procs : ScanSaveNothing(p)
  \/ \E p \in Procs : ScanSave(p)
  \/ \E p \in Procs : ScanMark(p)

SpecFiles == InitFiles /\ [][NextFiles]_vars

\* ----------------------------------------------------- deletion specification
\* Two log files are there when the service starts with its watcher; files
\* are removed, and the watcher's events run the deletion path, which may
\* fail.
NextDelete ==
  \/ \E f \in Files : FsDelete(f)
  \/ InitializeCall(ScanOptions)
  \/ \E p \in Procs : InitLoad(p, ConfigDirs)
  \/ \E p \in Procs : InitFinish(p, ConfigDirs)
  \/ \E f \in Files : WatchEvent(f)
  \/ \E p \in Procs : ScanList(p)
  \/ \E p \in Procs : ScanStat(p)
  \/ \E p \in Procs : ScanRead(p)
  \/ \E p \in Procs : ScanSaveNothing(p)
  \/ \E p \in Procs : ScanSave(p)
  \/ \E p \in Procs : ScanMark(p)
  \/ \E p \in Procs : WatchStat(p)
  \/ \E p \in Procs : WatchDelete(p)
  \/ \E p \in Procs : WatchDeleteFails(p)

SpecDelete == InitFiles /\ [][NextDelete]_vars

\* ------------------------------------------------- config directories
MaxEnvDirs == 2

\* join(homedir(), ".claude") and join(homedir(), ".config", "claude")
legacyPath == "~/.claude"

xdgPath == "~/.config/claude"

Paths == {"/a", "/b", legacyPath, xdgPath}

\* one comma-separated piece of CLAUDE_CONFIG_DIR: its text without the
\* blanks around it, and whether it has blanks around it
Pieces == [text : Paths \cup {""}, padded : BOOLEAN]

\* p.trim()
Trim(piece) == piece.text

\* CLAUDE_CONFIG_DIR: unset or empty (<<>>), or its pieces
EnvValues == UNION {[1..n -> Pieces] : n \in 0..MaxEnvDirs}

\* existsSync(p)
existsSync(paths, p) == p \in paths

RECURSIVE PushEnvDirs(_, _, _, _)
\* for (const p of paths) if (p && existsSync(p)) dirs.push(p)
PushEnvDirs(pieces, i, paths, dirs) ==
  IF i > Len(pieces) THEN dirs
  ELSE LET p == Trim(pieces[i])
       IN PushEnvDirs(pieces, i + 1, paths, IF p # "" /\ existsSync(paths, p) THEN Append(dirs, p) ELSE dirs)

\* dirs.includes(p)
Includes(dirs, p) == \E k \in 1..Len(dirs) : dirs[k] = p

\* if (existsSync(p) && !dirs.includes(p)) dirs.push(p)
PushFallback(paths, dirs, p) == IF existsSync(paths, p) /\ ~Includes(dirs, p) THEN Append(dirs, p) ELSE dirs

\* getClaudeConfigDirs() under an environment and a set of existing paths
getClaudeConfigDirs(pieces, paths) ==
  LET fromEnv == IF pieces # <<>> THEN PushEnvDirs(pieces, 1, paths, <<>>) ELSE <<>>
  IN PushFallback(paths, PushFallback(paths, fromEnv, legacyPath), xdgPath)

notPathVars == <<parseVars, queryVars, fsVars, dbVars, svcVars, watchVars, sinceRaw, burstCount, emitCount, cancelCount, rawCount, batch, lifeHist, deleted, handles>>

\* the process is started with a value of CLAUDE_CONFIG_DIR
SetEnv(pieces) ==
  /\ ~lastDirs.called
  /\ envDirs = <<>>
  /\ envDirs' = pieces
  /\ UNCHANGED <<onDisk, lastDirs, notPathVars>>

\* a path is created
MakePath(p) ==
  /\ p \notin onDisk
  /\ onDisk' = onDisk \cup {p}
  /\ UNCHANGED <<envDirs, lastDirs, notPathVars>>

\* a path is removed
RemovePath(p) ==
  /\ p \in onDisk
  /\ onDisk' = onDisk \ {p}
  /\ UNCHANGED <<envDirs, lastDirs, notPathVars>>

\* getClaudeConfigDirs()
GetClaudeConfigDirs ==
  /\ lastDirs' = [called |-> TRUE, envDirs |-> envDirs, existing |-> onDisk, dirs |-> getClaudeConfigDirs(envDirs, onDisk)]
  /\ UNCHANGED <<envDirs, onDisk, notPathVars>>

NextPaths ==
  \/ \E pieces \in EnvValues : SetEnv(pieces)
  \/ \E p \in Paths : MakePath(p)
  \/ \E p \in Paths : RemovePath(p)
  \/ GetClaudeConfigDirs

SpecPaths == Init /\ [][NextPaths]_vars

\* ------------------------------------------------ billing block report
\* 5 * 60 * 60 * 1000
blockSize == 18000000

\* SQLite's / on two integers: the quotient truncated toward zero
SqlDiv(a, b) == IF a >= 0 THEN a \div b ELSE -((-a) \div b)

\* if (startTime) ... AND timestamp >= ? ; if (endTime) ... AND timestamp <= ?
InRange(t, startTime, endTime) ==
  /\ (startTime # <<>> /\ startTime[1] # 0) => t >= startTime[1]
  /\ (endTime # <<>> /\ endTime[1] # 0) => t <= endTime[1]

Selected(table, startTime, endTime) == {r \in Rows(table) : InRange(r.timestamp, startTime, endTime)}

\* (timestamp / blockSize) * blockSize as blockStart
BlockStartOf(r) == SqlDiv(r.timestamp, blockSize) * blockSize

\* ((timestamp / blockSize) + 1) * blockSize as blockEnd
BlockEndOf(r) == (SqlDiv(r.timestamp, blockSize) + 1) * blockSize

RECURSIVE SumRows(_, _, _)
\* SUM(column) over the rows of a group, each row as often as the table holds it
SumRows(table, rows, column) ==
  IF rows = {} THEN 0
  ELSE LET r == CHOOSE x \in rows : TRUE
       IN table[r] * r[column] + SumRows(table, rows \ {r}, column)

RECURSIVE CountRows(_, _)
\* COUNT(*) over the rows of a group
CountRows(table, rows) ==
  IF rows = {} THEN 0
  ELSE LET r == CHOOSE x \in rows : TRUE
       IN table[r] + CountRows(table, rows \ {r})

\* one row of the GROUP BY blockStart
BlockRow(table, rows) ==
  LET r == CHOOSE x \in rows : TRUE
  IN [blockStart |-> BlockStartOf(r),
      blockEnd |-> BlockEndOf(r),
      inputTokens |-> SumRows(table, rows, "inputTokens"),
      outputTokens |-> SumRows(table, rows, "outputTokens"),
      cacheCreationInputTokens |-> SumRows(table, rows, "cacheCreationInputTokens"),
      cacheReadInputTokens |-> SumRows(table, rows, "cacheReadInputTokens"),
      totalTokens |-> SumRows(table, rows, "totalTokens"),
      costUsd |-> SumRows(table, rows, "costUsd"),
      requestCount |-> CountRows(table, rows)]

RECURSIVE OrderDesc(_, _)
\* ORDER BY blockStart DESC over the groups, given by their blockStart
OrderDesc(table, rows) ==
  IF rows = {} THEN <<>>
  ELSE LET top == CHOOSE b \in {BlockStartOf(r) : r \in rows} : \A r \in rows : BlockStartOf(r) <= b
           group == {r \in rows : BlockStartOf(r) = top}
       IN <<BlockRow(table, group)>> \o OrderDesc(table, rows \ group)

\* getBillingBlockUsage(startTime?, endTime?); blockStart and blockEnd are
\* kept as the epoch milliseconds that toISOString() writes out
getBillingBlockUsage(table, startTime, endTime) == OrderDesc(table, Selected(table, startTime, endTime))

\* the timestamps of the entries saved: one hour before the epoch, the
\* epoch, the last millisecond of the first block, the start of the second
BillingStamps == {"1969-12-31T23:00:00.000Z", "1970-01-01T00:00:00.000Z", "1970-01-01T04:59:59.999Z", "1970-01-01T05:00:00.000Z"}

BillingEntry(u, stamp) == parseLine([JsonLine(u, "s1", stamp) EXCEPT !.input_tokens = <<1>>], FileOrder[1], extractProjectPath(FileOrder[1]), 0, 1).entry

TimeArgs == {<<>>, <<0>>, <<18000000>>}

notQueryVars == <<parseVars, pathVars, fsVars, svcVars, watchVars, sinceRaw, burstCount, emitCount, cancelCount, rawCount, batch, lifeHist, deleted, handles>>

\* saveEntries([entry]) of an entry parsed from a log line
BillingSave(u, stamp) ==
  /\ entriesTable' = saveEntries(entriesTable, <<BillingEntry(u, stamp)>>)
  /\ UNCHANGED <<queryVars, notQueryVars, filesTable, dbFailures>>

\* the usage API's getBillingBlockUsage(startTime, endTime)
GetBillingBlockUsage(startTime, endTime) ==
  /\ usage' = [startTime |-> startTime, endTime |-> endTime, blocks |-> getBillingBlockUsage(entriesTable, startTime, endTime)]
  /\ UNCHANGED <<listing, totals, notQueryVars, dbVars>>

NextBilling ==
  \/ \E u \in {"a", "b", "c"} : \E stamp \in BillingStamps : BillingSave(u, stamp)
  \/ \E startTime \in TimeArgs : \E endTime \in TimeArgs : GetBillingBlockUsage(startTime, endTime)

SpecBilling == Init /\ [][NextBilling]_vars

\* ------------------------------------------------------- totals and projects
\* getTotalEntryCount: COUNT(*), 0 for no result
getTotalEntryCount(table) == CountRows(table, Rows(table))

\* getTotalCost: SUM(cost_usd), 0 for NULL
getTotalCost(table) == SumRows(table, Rows(table), "costUsd")

\* one row of the GROUP BY project_path
ProjectRow(table, rows) ==
  LET r == CHOOSE x \in rows : TRUE
  IN [projectPath |-> r.projectPath,
      sessionCount |-> Cardinality({x.sessionId : x \in rows}),
      totalTokens |-> SumRows(table, rows, "totalTokens"),
      costUsd |-> SumRows(table, rows, "costUsd"),
      lastActivity |-> CHOOSE n \in {x.timestamp : x \in rows} : \A x \in rows : x.timestamp <= n]

\* the place of a project path in the order GROUP BY project_path yields
ProjectRank(projectPath) == CHOOSE i \in 1..Len(FileOrder) : extractProjectPath(FileOrder[i]) = projectPath

RECURSIVE OrderProjects(_, _)
\* GROUP BY project_path ORDER BY lastActivity DESC: groups of equal
\* lastActivity in the order the grouping yields them
OrderProjects(table, rows) ==
  IF rows = {} THEN <<>>
  ELSE LET paths == {r.projectPath : r \in rows}
           last == [path \in paths |-> ProjectRow(table, {r \in rows : r.projectPath = path}).lastActivity]
           first == CHOOSE path \in paths : \A other \in paths : last[other] < last[path] \/ (last[other] = last[path] /\ ProjectRank(path) <= ProjectRank(other))
           group == {r \in rows : r.projectPath = first}
       IN <<ProjectRow(table, group)>> \o OrderProjects(table, rows \ group)

\* getProjects(); lastActivity is kept as the epoch milliseconds that
\* toISOString() writes out
getProjects(table) == OrderProjects(table, Rows(table))

\* entries of two uuids in two projects and two billing blocks, with one
\* token and one cost unit in the first block and two in the second
TotalsEntry(u, f, late) == parseLine([JsonLine(u, "s1", IF late THEN "1970-01-01T05:00:00.000Z" ELSE "1970-01-01T00:00:00.000Z") EXCEPT !.input_tokens = <<IF late THEN 2 ELSE 1>>, !.costUSD = <<IF late THEN 2 ELSE 1>>], f, extractProjectPath(f), 0, 1).entry

TotalsEntries == {TotalsEntry(u, f, late) : u \in {"a", "b"}, f \in Files, late \in BOOLEAN}

TotalsBatches == UNION {[1..n -> TotalsEntries] : n \in 0..MaxBatch}

\* the usage API asks for the totals, the billing blocks and the projects
GetTotals ==
  /\ totals' = [asked |-> TRUE,
                entryCount |-> getTotalEntryCount(entriesTable),
                cost |-> getTotalCost(entriesTable),
                blocks |-> getBillingBlockUsage(entriesTable, <<>>, <<>>),
                projects |-> getProjects(entriesTable)]
  /\ UNCHANGED <<usage, listing, notQueryVars, dbVars>>

NextTotals ==
  \/ \E entries \in TotalsBatches : RepoSave(entries)
  \/ \E f \in Files : RepoDelete(f)
  \/ GetTotals

SpecTotals == Init /\ [][NextTotals]_vars

\* --------------------------------------------------- session usage report
MaxLimit == 2

\* the order of MAX() over the text values stored here (BINARY collation);
\* NULL, held as "null", is below them all: MAX() skips it
Collation(text) == CASE text = "null" -> 0 [] text = "dev" -> 1 [] text = "main" -> 2 [] text = "opus" -> 3 [] text = "sonnet" -> 4

\* MAX(column) over text values
MaxText(values) == CHOOSE v \in values : \A w \in values : Collation(w) <= Collation(v)

\* MIN(timestamp), MAX(timestamp)
MinOf(numbers) == CHOOSE n \in numbers : \A m \in numbers : n <= m

MaxOf(numbers) == CHOOSE n \in numbers : \A m \in numbers : m <= n

\* FROM claude_log_entries WHERE 1=1 [AND project_path = ?]
Matching(table, project) == {r \in Rows(table) : project = <<>> \/ r.projectPath = project}

SessionIds(rows) == {r.sessionId : r \in rows}

\* one row of the GROUP BY session_id; projectPath is a bare column, taken
\* from a row that holds the session's greatest timestamp
SessionRow(table, rows) ==
  LET endTime == MaxOf({r.timestamp : r \in rows})
      bare == CHOOSE r \in rows : r.timestamp = endTime
  IN [sessionId |-> bare.sessionId,
      projectPath |-> bare.projectPath,
      startTime |-> MinOf({r.timestamp : r \in rows}),
      endTime |-> endTime,
      inputTokens |-> SumRows(table, rows, "inputTokens"),
      outputTokens |-> SumRows(table, rows, "outputTokens"),
      cacheCreationInputTokens |-> SumRows(table, rows, "cacheCreationInputTokens"),
      cacheReadInputTokens |-> SumRows(table, rows, "cacheReadInputTokens"),
      totalTokens |-> SumRows(table, rows, "totalTokens"),
      costUsd |-> SumRows(table, rows, "costUsd"),
      requestCount |-> CountRows(table, rows),
      model |-> MaxText({r.model : r \in rows}),
      gitBranch |-> MaxText({r.gitBranch : r \in rows})]

\* the place of a session id in the order GROUP BY session_id yields
SessionRank(sessionId) == CASE sessionId = "s1" -> 1 [] sessionId = "s2" -> 2 [] sessionId = "s3" -> 3

RECURSIVE OrderSessions(_, _)
\* GROUP BY session_id ORDER BY endTime DESC: the groups by falling endTime,
\* groups of equal endTime in the order the grouping yields them
OrderSessions(table, rows) ==
  IF rows = {} THEN <<>>
  ELSE LET ends == [id \in SessionIds(rows) |-> MaxOf({r.timestamp : r \in {x \in rows : x.sessionId = id}})]
           first == CHOOSE id \in SessionIds(rows) : \A other \in SessionIds(rows) : ends[other] < ends[id] \/ (ends[other] = ends[id] /\ SessionRank(id) <= SessionRank(other))
           group == {r \in rows : r.sessionId = first}
       IN <<SessionRow(table, group)>> \o OrderSessions(table, rows \ group)

\* a LIMIT ? without its OFFSET ?
LimitWithoutOffset(rows, limit, offset) == SubSeq(rows, 1, IF limit < Len(rows) THEN limit ELSE Len(rows))

\* LIMIT ? OFFSET ?, for a limit and an offset that are not negative
LimitOffset(rows, limit, offset) == SubSeq(rows, offset + 1, IF offset + limit < Len(rows) THEN offset + limit ELSE Len(rows))

\* getSessionUsage(limit, offset, project); startTime and endTime are kept
\* as the epoch milliseconds that toISOString() writes out
getSessionUsage(table, limit, offset, project) ==
  [sessions |-> LimitOffset(OrderSessions(table, Matching(table, project)), limit, offset),
   totalCount |-> Cardinality(SessionIds(Matching(table, project)))]

\* the log lines of the sessions: a model with the branch it was used on
ModelAndBranch == {<<"opus", "main">>, <<"sonnet", "dev">>}

SessionEntry(u, sessionId, stamp, mb, f) == parseLine([JsonLine(u, sessionId, stamp) EXCEPT !.model = mb[1], !.gitBranch = mb[2], !.input_tokens = <<1>>], f, extractProjectPath(f), 0, 1).entry

SessionEntries == {SessionEntry(u, sessionId, stamp, mb, f) : u \in {"a", "b", "c"}, sessionId \in {"s1", "s2", "s3"}, stamp \in {"1970-01-01T00:00:00.000Z", "1970-01-01T05:00:00.000Z"}, mb \in ModelAndBranch, f \in Files}

ProjectArgs == {<<>>, extractProjectPath(FileOrder[1])}

notListing == <<usage, totals, pathVars, parseVars, fsVars, svcVars, watchVars, sinceRaw, burstCount, emitCount, cancelCount, rawCount, batch, lifeHist, deleted, handles>>

\* saveEntries([entry]) while no client holds pages
SessionSave(entry) ==
  /\ listing.state = "none"
  /\ entriesTable' = saveEntries(entriesTable, <<entry>>)
  /\ UNCHANGED <<listing, notListing, filesTable, dbFailures>>

\* GET /api/usage/sessions?limit=..&offset=0[&project=..]
FirstPage(limit, project) ==
  /\ listing.state = "none"
  /\ LET page == getSessionUsage(entriesTable, limit, 0, project)
     IN listing' = [state |-> IF limit >= page.totalCount THEN "done" ELSE "open", limit |-> limit, project |-> project, offset |-> limit, sessions |-> page.sessions, totalCount |-> page.totalCount]
  /\ UNCHANGED <<notListing, dbVars>>

\* the client asks for the page at the next offset
NextPage ==
  /\ listing.state = "open"
  /\ LET page == getSessionUsage(entriesTable, listing.limit, listing.offset, listing.project)
     IN listing' = [listing EXCEPT !.state = IF listing.offset + listing.limit >= page.totalCount THEN "done" ELSE "open", !.offset = listing.offset + listing.limit, !.sessions = listing.sessions \o page.sessions, !.totalCount = page.totalCount]
  /\ UNCHANGED <<notListing, dbVars>>

\* the client is done with the pages
DropListing ==
  /\ listing.state = "done"
  /\ listing' = NoListing
  /\ UNCHANGED <<notListing, dbVars>>

NextSessions ==
  \/ \E entry \in SessionEntries : SessionSave(entry)
  \/ \E limit \in 1..MaxLimit : \E project \in ProjectArgs : FirstPage(limit, project)
  \/ NextPage
  \/ DropListing

SpecSessions == Init /\ [][NextSessions]_vars

\* ------------------------------------------------- the parser on its own
\* The batch parsers are pure functions of the content, the path and the
\* offset; this specification hands them every content of up to MaxParseLines
\* lines and every offset, and stores what they return through saveEntries.
MaxParseLines == 3

ParsedPath == FileOrder[1]

\* a line with two of the four counters and a total of its own
TokenLine == [JsonLine("a", "s1", "1970-01-01T00:00:00.000Z") EXCEPT !.input_tokens = <<1>>, !.cache_creation_input_tokens = <<2>>, !.totalTokens = <<7>>]

\* a line with no usage object
PlainLine == JsonLine("b", "s1", "1970-01-01T00:00:00.000Z")

ParseLines == {BlankLine, NotJsonLine, TokenLine, PlainLine, JsonLine("", "s1", "1970-01-01T00:00:00.000Z"), JsonLine("a", "", "1970-01-01T00:00:00.000Z"), JsonLine("a", "s1", ""), JsonLine("a", "s1", "yesterday")}

ParseInputs == UNION {[1..n -> ParseLines] : n \in 0..MaxParseLines}

notParseVars == <<queryVars, pathVars, fsVars, svcVars, watchVars, sinceRaw, burstCount, emitCount, cancelCount, rawCount, batch, lifeHist, deleted, handles>>

\* the caller picks a content and an offset
ChooseInput(c, s) ==
  /\ parsed = "none"
  /\ parseInput = <<>>
  /\ parseStart = 0
  /\ parseInput' = c
  /\ parseStart' = s
  /\ parseResult' = NoResult
  /\ parsed' = "none"
  /\ UNCHANGED <<notParseVars, dbVars>>

\* parseJSONLContent(content, filePath, projectPath, fileModifiedAt)
ParseContent ==
  /\ parsed = "none"
  /\ parseResult' = parseJSONLContent(parseInput, ParsedPath, extractProjectPath(ParsedPath), 0)
  /\ parsed' = "all"
  /\ UNCHANGED <<parseInput, parseStart, notParseVars, dbVars>>

\* parseJSONLContentFromLine(content, filePath, projectPath, fileModifiedAt, startLine)
ParseContentFromLine ==
  /\ parsed = "none"
  /\ parseResult' = parseJSONLContentFromLine(parseInput, ParsedPath, extractProjectPath(ParsedPath), 0, parseStart)
  /\ parsed' = "from"
  /\ UNCHANGED <<parseInput, parseStart, notParseVars, dbVars>>

\* the scan's saveEntries(entries) of what the parser returned
StoreParsed ==
  /\ parsed # "none"
  /\ Len(parseResult.entries) > 0
  /\ entriesTable' = saveEntries(entriesTable, parseResult.entries)
  /\ UNCHANGED <<parseVars, notParseVars, filesTable, dbFailures>>

\* the caller is done with what the parser returned
DropResult ==
  /\ parsed # "none"
  /\ parseInput' = <<>>
  /\ parseStart' = 0
  /\ parseResult' = NoResult
  /\ parsed' = "none"
  /\ UNCHANGED <<notParseVars, dbVars>>

NextParse ==
  \/ \E c \in ParseInputs : \E s \in 0..(MaxParseLines + 1) : ChooseInput(c, s)
  \/ ParseContent
  \/ ParseContentFromLine
  \/ StoreParsed
  \/ DropResult

SpecParse == Init /\ [][NextParse]_vars

\* ================================================================ claims
\* process p takes a step
Stepped(p) == procs'[p] # procs[p]

\* the pcs of a scan-and-persist sequence: from the listing of the files,
\* through the reads of the map, to the last watermark write
ScanPcs == {"list", "stat", "read", "save", "mark"}

Scanning == {p \in Procs : procs[p].pc \in ScanPcs}

IsPrefix(a, b) == Len(a) <= Len(b) /\ SubSeq(b, 1, Len(a)) = a

\* C1: at most one scan-and-persist sequence is in flight at any time.
C1_NoOverlappingScans == Cardinality(Scanning) <= 1

\* the entries of the lines of f after the first n, as a scan that saw
\* mtime would produce them
EntriesAfter(f, n, mtime) == [i \in 1..(Len(disk[f].content) - n) |-> parseLine(disk[f].content[n + i], f, extractProjectPath(f), mtime, n + i).entry]

\* C2: when an incremental scan reads a file that has a watermark, whose
\* content is what was scanned when the watermark was written (N lines)
\* followed by M valid lines, the scan returns exactly the entries of these M
\* lines for the file.
C2_IncrementalExact == [][\A p \in Procs : LET pr == procs[p] f == Head(pr.todo) IN
     (/\ pr.pc = "read" /\ pr.kind = "incr" /\ Stepped(p)
      /\ disk[f].exists /\ pr.processed # NoPF
      /\ IsPrefix(pr.processed.scanned, disk[f].content)
      /\ \A i \in 1..Len(disk[f].content) : i > Len(pr.processed.scanned) => EntriesAfter(f, 0, 0)[i] # NoEntry)
     => SubSeq(procs'[p].entries, Len(pr.entries) + 1, Len(procs'[p].entries)) = EntriesAfter(f, Len(pr.processed.scanned), pr.fileStat.mtimeMs)]_vars

\* C3: a ProcessedFile watermark changes, in the map or in the table, only in
\* the mark step of a scan whose saveEntries call has committed and held
\* entries of that file (or when initialize() loads the map from the table).
C3_WatermarkAfterSave == [][\A f \in Files :
     ((processedFiles'[f] # processedFiles[f] /\ processedFiles'[f] # NoPF) \/ (filesTable'[f] # filesTable[f] /\ filesTable'[f] # NoPF))
     => \/ \E p \in Procs : procs[p].pc = "load" /\ Stepped(p) /\ processedFiles' = filesTable /\ filesTable' = filesTable
        \/ \E p \in Procs : /\ procs[p].pc = "mark" /\ Stepped(p) /\ Head(procs[p].marks)[1] = f
                            /\ procs[p].saved
                            /\ CountFor(procs[p].entries, f) > 0]_vars

\* a watermark has been written for a file whose entries are stored
C3_Witness == \E f \in Files : processedFiles[f] # NoPF /\ filesTable[f] # NoPF /\ \E r \in Rows(entriesTable) : r.filePath = f

\* the step in which saveEntries throws in process p
SaveFailsIn(p) == procs[p].pc = "save" /\ Stepped(p) /\ dbFailures' # dbFailures

\* C4: when saveEntries throws, no watermark changes in the map or in the
\* table, the scan ends without marking, the periodic timer stays armed, and
\* every file of the batch whose map record is still the one the scan used is
\* still due for a read from the same line offset.
C4_FailedSaveKeepsWatermarks == [][\A p \in Procs : SaveFailsIn(p) =>
     /\ processedFiles' = processedFiles
     /\ filesTable' = filesTable
     /\ entriesTable' = entriesTable
     /\ procs'[p].pc = "idle"
     /\ scanIntervalTimer' = scanIntervalTimer
     /\ \A f \in procs[p].readFiles : (procs[p].kind # "full" /\ disk[f].exists /\ processedFiles'[f] = procs[p].seen[f]) => ~Unchanged(processedFiles'[f], Stat(f))]_vars

\* a periodic scan has failed in saveEntries and the timer is still armed
\* and the next periodic scan reads the file again
C4_Witness == dbFailures = <<(<<"saveEntries", "timer">>)>> /\ scanIntervalTimer /\ entriesTable = NoRows /\ \E f \in Files : disk[f].exists /\ processedFiles[f] = NoPF /\ \E p \in Procs : procs[p].kind = "incr" /\ procs[p].pc = "read" /\ Head(procs[p].todo) = f

\* the step in which the scan of process p ends without an exception
EndsWell(p) == procs[p].pc \in {"save", "mark"} /\ procs'[p].pc \in {"idle", "finish"} /\ dbFailures' = dbFailures

\* C5: when a scan ends, every file it read (and that still exists) has a
\* ProcessedFile record in the map and in the table, with the file's size
\* when the file has not changed since it was read.
C5_ReadFilesAreMarked == [][\A p \in Procs : EndsWell(p) => \A f \in procs[p].readFiles : disk[f].exists =>
     /\ processedFiles'[f] # NoPF
     /\ filesTable'[f] # NoPF
     /\ (disk[f].content = procs[p].content[f] => processedFiles'[f].lastSize = Stat(f).size)]_vars

RECURSIVE FullScanEntries(_)
\* the entries scanAllJSONLFiles returns for the files as they are now
FullScanEntries(i) == IF i > Len(FileOrder) THEN <<>> ELSE (IF disk[FileOrder[i]].exists THEN parseJSONLContent(disk[FileOrder[i]].content, FileOrder[i], extractProjectPath(FileOrder[i]), disk[FileOrder[i]].mtime).entries ELSE <<>>) \o FullScanEntries(i + 1)

\* process p is a full scan about to save what a full scan of the present
\* files yields, and every row of it is stored already (a first run saved it)
SecondRun(p) == /\ procs[p].pc = "save" /\ procs[p].kind = "full" /\ procs[p].entries # <<>>
                /\ procs[p].entries = FullScanEntries(1)
                /\ \A i \in 1..Len(procs[p].entries) : procs[p].entries[i] \in Rows(entriesTable)

\* C6: the save of a second full scan over an unchanged file set leaves the
\* LogEntry table exactly as it was: no row added, none changed.
C6_RescanIdempotent == [][\A p \in Procs : (SecondRun(p) /\ Stepped(p) /\ dbFailures' = dbFailures) => entriesTable' = entriesTable]_vars

C6_Witness == \E p \in Procs : SecondRun(p) /\ \A q \in Procs \ {p} : procs[q].pc = "idle"

\* C8: when the watch path finds its file missing and deleteEntriesFromFile
\* returns, no LogEntry row of that file is left, the file has no
\* ProcessedFile row and no entry in the map.
C8_DeletionCascade == [][\A p \in Procs : (procs[p].pc = "delete" /\ Stepped(p) /\ dbFailures' = dbFailures) =>
     /\ \A r \in Rows(entriesTable') : r.filePath # procs[p].target
     /\ filesTable'[procs[p].target] = NoPF
     /\ processedFiles'[procs[p].target] = NoPF]_vars

\* the watch path is about to delete a file that was scanned before
C8_Witness == \E p \in Procs : /\ procs[p].pc = "delete"
                                /\ filesTable[procs[p].target] # NoPF /\ processedFiles[procs[p].target] # NoPF
                                /\ \E r \in Rows(entriesTable) : r.filePath = procs[p].target

\* the rows stored under uuid u
RowsOf(u) == {r \in Rows(entriesTable) : r.uuid = u}

\* the last entry of the batch that carries uuid u
LastOf(entries, u) == entries[CHOOSE i \in 1..Len(entries) : entries[i].uuid = u /\ \A j \in (i+1)..Len(entries) : entries[j].uuid # u]

\* C7: after any sequence of saveEntries calls the store holds at most one
\* record per uuid, and every uuid of the batch just saved is stored with
\* the whole record of its last occurrence in that batch, whatever was
\* stored under it before.
C7_OneRecordPerUuid ==
  /\ \A r \in Rows(entriesTable) : entriesTable[r] = 1 /\ RowsOf(r.uuid) = {r}
  /\ \A i \in 1..Len(batch) : RowsOf(batch[i].uuid) = {LastOf(batch, batch[i].uuid)}

C7_Witness == Len(batch) = 2 /\ batch[1].uuid = batch[2].uuid /\ batch[1].costUsd # batch[2].costUsd /\ batch[1].filePath # batch[2].filePath /\ Rows(entriesTable) = {batch[2]}

\* a path's bursts are accounted for: each has emitted its one event, or
\* its timer is still pending and due DEBOUNCE_MS after the last
\* notification
DebouncedOnce(f, cancelled) ==
  /\ burstCount[f] = emitCount[f] + cancelled + (IF Pending(f) THEN 1 ELSE 0)
  /\ Pending(f) => debounceTimers[f] = DEBOUNCE_MS - sinceRaw[f]

\* C9 as stated: every burst of raw notifications for a path, each less than
\* 500 ms after the previous one, produces exactly one emitted event, 500 ms
\* after its last notification, each path on its own.
C9_BurstEmitsOnce == \A f \in Files : DebouncedOnce(f, 0)

\* C9: every burst of raw notifications for a path, each less than 500 ms
\* after the previous one, produces exactly one emitted event, 500 ms after
\* its last notification, each path on its own, unless stop() is called
\* before that event is emitted: then the burst produces none.
C9_BurstEmitsOnceUnlessStopped == \A f \in Files : DebouncedOnce(f, cancelCount[f])

C9_Witness == \E f, g \in Files : f # g /\ rawCount = MaxRaw /\ burstCount[f] = 1 /\ emitCount[f] = 1 /\ burstCount[g] = 2 /\ emitCount[g] = 1 /\ Pending(g) /\ cancelCount[g] = 0

\* C10: from stop() until the next start() no event is emitted: an event is
\* emitted only while the watcher is started, and a stopped watcher holds
\* no subscription and no timer, whatever was armed before stop().
C10_NoEventAfterStop == [][(emitCount' # emitCount => isWatching) /\ (~isWatching' => watchers' = {} /\ \A f \in Files : ~Pending(f)')]_vars

C10_Witness == ~isWatching /\ \E f \in Files : cancelCount[f] > 0 /\ sinceRaw[f] = NoTimer /\ emitCount[f] > 0

\* the last lifecycle call made
LastOp == IF ops = <<>> THEN "none" ELSE ops[Len(ops)]

\* C11: once dispose() has returned and initialize() has not been called
\* since, the periodic timer is not armed, the watcher is not watching and
\* holds no subscription (so no tick and no watch event can come), and the
\* service is marked uninitialized, also when the dispose() came while an
\* initialize() was awaiting its startup scan.
C11_DisposedStaysDown == LastOp = "dispose" => (~scanIntervalTimer /\ ~isWatching /\ watchers = {} /\ ~initialized)

\* the service is as dispose() leaves it and dispose() was the last call
Disposed == LastOp = "dispose" /\ ~initialized

\* C12: initialize() on an initialized service and dispose() on a disposed
\* one change nothing: no scan starts, the map is not reloaded, no watcher or
\* timer starts or stops.
C12_DoubleCallsAreNoOps == [][
    /\ (ops' = Append(ops, "initialize") /\ initialized) => UNCHANGED <<fsVars, dbVars, svcVars, watchVars>>
    /\ (ops' = Append(ops, "dispose") /\ Disposed) => UNCHANGED <<fsVars, dbVars, svcVars, watchVars>>]_vars

\* initialize() was called twice, the second time on the initialized
\* service, and dispose() twice after it
C12_Witness == ops = <<"initialize", "initialize", "dispose", "dispose">> /\ calls = 1 /\ ~initialized /\ \E f \in Files : processedFiles[f] # NoPF

\* the watcher starts or the periodic timer is armed in this step
Starts == (isWatching' /\ ~isWatching) \/ (scanIntervalTimer' /\ ~scanIntervalTimer)

\* C13: with scanOnStartup, a call of initialize() runs one full scan (it
\* enters the scan once, from the load of the map), it goes on only when the
\* last write of that scan has completed (the save with nothing to mark, or
\* the last watermark update after a committed save), and the watcher and
\* the timer start only in that step.
C13_StartupScanFirst == [][\A p \in Procs :
    /\ (procs[p].caller = "init" /\ procs'[p].pc = "list" /\ procs[p].pc # "list") => (procs[p].pc = "load" /\ options.scanOnStartup /\ procs'[p].kind = "full")
    /\ (procs'[p].pc = "finish" /\ procs[p].pc # "finish") =>
          /\ procs[p].kind = "full" /\ procs[p].caller = "init" /\ dbFailures' = dbFailures
          /\ \/ procs[p].pc = "save" /\ procs[p].entries = <<>>
             \/ procs[p].pc = "mark" /\ procs[p].saved /\ Len(procs[p].marks) = 1
    /\ (Starts /\ options.scanOnStartup) => \E q \in Procs : procs[q].pc = "finish" /\ procs'[q].pc = "idle"]_vars

\* the startup scan has stored entries and watermarks and the watcher and
\* the timer run
C13_Witness == initialized /\ isWatching /\ scanIntervalTimer /\ ops = <<"initialize">> /\ calls = 1 /\ entriesTable # NoRows /\ \E f \in Files : filesTable[f] # NoPF /\ processedFiles[f] = filesTable[f]

\* C14: the persisted lastLineCount of a file never decreases: whenever a
\* scan rewrites the ProcessedFile row of a file (every successful watermark
\* update writes the same record to the map and to the row), the new count is
\* at least the one the row held.
C14_LineCountMonotone == [][\A f \in Files : (filesTable[f] # NoPF /\ filesTable'[f] # NoPF) => filesTable'[f].lastLineCount >= filesTable[f].lastLineCount]_vars

\* a second successful scan has rewritten the row of a file: the count
\* stands at two for a file of one line
C14_Witness == \E f \in Files : Len(disk[f].content) = 1 /\ disk[f].exists /\ filesTable[f] # NoPF /\ filesTable[f].lastLineCount = 2 /\ processedFiles[f] = filesTable[f]

\* the live mtime and size of f are those of its stored record
SameAsStored(processed, fileStat) == processed # NoPF /\ processed.lastModifiedAt = fileStat.mtimeMs /\ processed.lastSize = fileStat.size

\* C15: in an incremental scan a discovered file is skipped (counted in
\* filesSkipped, not read) exactly when its mtime and size are those of its
\* stored record; a file whose mtime or size differs, or that has no record,
\* is read and counted in filesProcessed.
C15_SkipIffUnchanged == [][\A p \in Procs : LET pr == procs[p] f == Head(pr.todo) IN
    /\ (pr.pc = "stat" /\ pr.kind = "incr" /\ Stepped(p) /\ disk[f].exists) =>
          IF SameAsStored(processedFiles[f], Stat(f))
            THEN procs'[p].filesSkipped = pr.filesSkipped + 1 /\ procs'[p].pc # "read" /\ procs'[p].readFiles = pr.readFiles
            ELSE procs'[p].filesSkipped = pr.filesSkipped /\ procs'[p].pc = "read"
    /\ (pr.pc = "read" /\ pr.kind = "incr" /\ Stepped(p) /\ disk[f].exists) =>
          procs'[p].filesProcessed = pr.filesProcessed + 1 /\ f \in procs'[p].readFiles]_vars

\* ---- C16
\* the offset the parser in "parsed" started from
ParsedFrom == IF parsed = "from" THEN parseStart ELSE 0

\* a line that is not valid JSON, or lacks a non-empty uuid or sessionId or
\* a timestamp that parses
IsBadLine(line) == line.k = "notjson" \/ (line.k = "json" /\ (line.uuid = "" \/ line.sessionId = "" \/ DateParse(line.timestamp) = NaN))

IsGoodLine(line) == line.k = "json" /\ ~IsBadLine(line)

\* the 1-based positions after the offset of the lines of the input that are
\* bad, and of those that are good, in file order
BadPositions == SelectSeq([i \in 1..Len(parseInput) |-> i], LAMBDA i : i > ParsedFrom /\ IsBadLine(parseInput[i]))

GoodPositions == SelectSeq([i \in 1..Len(parseInput) |-> i], LAMBDA i : i > ParsedFrom /\ IsGoodLine(parseInput[i]))

\* C16: a batch parse, from the start or from an offset, returns exactly one
\* ScanError per bad line, carrying the file path and the line's 1-based
\* position in the file, and for every good line exactly the entry that line
\* gives on its own, whatever the other lines are.
C16_BadLinesAreIsolated ==
  parsed # "none" =>
    /\ Len(parseResult.errors) = Len(BadPositions)
    /\ \A k \in 1..Len(BadPositions) : parseResult.errors[k].filePath = ParsedPath /\ parseResult.errors[k].line = BadPositions[k]
    /\ Len(parseResult.entries) = Len(GoodPositions)
    /\ \A k \in 1..Len(GoodPositions) : parseResult.entries[k] = parseLine(parseInput[GoodPositions[k]], ParsedPath, extractProjectPath(ParsedPath), 0, GoodPositions[k]).entry

\* [valid, malformed, valid] parsed: two entries and one error, for line 2
C16_Witness ==
  /\ parsed = "all"
  /\ parseInput = <<TokenLine, NotJsonLine, PlainLine>>
  /\ Len(parseResult.entries) = 2
  /\ Len(parseResult.errors) = 1
  /\ parseResult.errors[1].line = 2

\* ---- C17
Counter(m) == IF m = <<>> THEN 0 ELSE m[1]

SumOfCounters(e) == e.inputTokens + e.outputTokens + e.cacheCreationInputTokens + e.cacheReadInputTokens

\* C17: every entry the parser returns and every row stored from one has
\* totalTokens equal to the sum of its four counters, each counter being the
\* line's own or 0 when the line has none, whatever total the line carries.
C17_TotalIsSumOfCounters ==
  /\ \A r \in Rows(entriesTable) : r.totalTokens = SumOfCounters(r)
  /\ parsed # "none" =>
       \A k \in 1..Len(GoodPositions) :
         LET line == parseInput[GoodPositions[k]]
             e == parseResult.entries[k]
         IN /\ k <= Len(parseResult.entries)
            /\ e.totalTokens = SumOfCounters(e)
            /\ e.totalTokens = Counter(line.input_tokens) + Counter(line.output_tokens) + Counter(line.cache_creation_input_tokens) + Counter(line.cache_read_input_tokens)

\* a line with counters 1 and 2 and a total of 7 of its own was stored with 3
C17_Witness ==
  /\ parsed # "none"
  /\ \E k \in 1..Len(GoodPositions) : parseInput[GoodPositions[k]] = TokenLine
  /\ \E r \in Rows(entriesTable) : r.uuid = "a" /\ r.inputTokens = 1 /\ r.outputTokens = 0 /\ r.cacheCreationInputTokens = 2 /\ r.totalTokens = 3

\* ---- C18
\* floor(t / 18,000,000) * 18,000,000 for a row's timestamp t
BlockStartFloored(r) == (r.timestamp \div blockSize) * blockSize

\* the rows of the table the query of this step selected
Queried == Selected(entriesTable, usage'.startTime, usage'.endTime)

\* C18: in the report a query returns, every blockStart is a multiple of
\* 18,000,000 and blockEnd is blockStart + 18,000,000, the blocks come newest
\* first, and every selected entry with timestamp t is counted in the one
\* block that starts at floor(t / 18,000,000) * 18,000,000.
C18_EpochAnchoredBlocks ==
  [][usage' # usage =>
       LET blocks == usage'.blocks
       IN /\ \A k \in 1..Len(blocks) : blocks[k].blockStart % blockSize = 0 /\ blocks[k].blockEnd = blocks[k].blockStart + blockSize
          /\ \A k \in 1..Len(blocks) : \A l \in 1..Len(blocks) : k < l => blocks[k].blockStart > blocks[l].blockStart
          /\ \A r \in Queried : \E k \in 1..Len(blocks) :
                /\ blocks[k].blockStart = BlockStartFloored(r)
                /\ blocks[k].requestCount = Cardinality({x \in Queried : BlockStartFloored(x) = BlockStartFloored(r)})]_vars

\* ---- C19
\* the override entries that are usable: non-empty once trimmed and existing
\* when the call was made, in the order given
UsableOverrides == SelectSeq([k \in 1..Len(lastDirs.envDirs) |-> Trim(lastDirs.envDirs[k])], LAMBDA p : p # "" /\ p \in lastDirs.existing)

IsIn(seq, p) == \E k \in 1..Len(seq) : seq[k] = p

\* every returned directory existed when the call was made
C19_OnlyExisting == lastDirs.called => \A k \in 1..Len(lastDirs.dirs) : lastDirs.dirs[k] \in lastDirs.existing

\* the usable override entries come first, in the order given, and after
\* them the fallback locations that exist, the legacy one before the XDG one;
\* in particular the fallbacks are checked when no override entry is usable
C19_OverridesThenFallbacks ==
  lastDirs.called =>
    LET dirs == lastDirs.dirs
        rest == SelectSeq(dirs, LAMBDA p : ~IsIn(UsableOverrides, p))
    IN /\ \A k \in 1..Len(UsableOverrides) : IsIn(dirs, UsableOverrides[k])
       /\ \A k \in 1..Len(dirs) : \A l \in 1..Len(dirs) : (k < l /\ IsIn(UsableOverrides, dirs[l])) => IsIn(UsableOverrides, dirs[k])
       /\ SelectSeq(dirs, LAMBDA p : IsIn(UsableOverrides, p)) = UsableOverrides
       /\ rest = SelectSeq(<<legacyPath, xdgPath>>, LAMBDA p : p \in lastDirs.existing /\ ~IsIn(UsableOverrides, p))

\* C19: getClaudeConfigDirs returns only directories that exist, none of
\* them twice, the usable override entries first in their given order and
\* then the fallback locations, which are checked also when no override
\* entry is usable.
C19_ConfigDirs ==
  /\ C19_OnlyExisting
  /\ C19_OverridesThenFallbacks
  /\ lastDirs.called => \A k \in 1..Len(lastDirs.dirs) : \A l \in 1..Len(lastDirs.dirs) : k # l => lastDirs.dirs[k] # lastDirs.dirs[l]

\* ---- C20
\* process p is in the per-file part of a scan and stat or readFile fails for
\* the file at hand
FailsAt(p) == procs[p].pc \in {"stat", "read"} /\ ~disk[Head(procs[p].todo)].exists

\* process p reads the file at hand
ReadsAt(p) == procs[p].pc = "read" /\ disk[Head(procs[p].todo)].exists

\* C20: in a full, incremental or watch-triggered scan, a stat or read that
\* fails adds one scan-level error naming the file and one to filesSkipped,
\* and nothing else to the result; the scan goes on with the next file, every
\* file listed ends up processed or skipped, a file read afterwards adds the
\* entries and errors of its own parse whatever failed before it, and the
\* per-file part always ends in the scan's return, never in a throw.
C20_FileFailureIsolated ==
  [][\A p \in Procs : (Stepped(p) /\ procs[p].pc \in {"stat", "read"}) =>
       LET pr == procs[p]
           f == Head(pr.todo)
           after == procs'[p]
       IN /\ after.pc \in {"stat", "read", "save"}
          /\ after.kind = pr.kind
          /\ after.filesProcessed + after.filesSkipped + Len(after.todo) = pr.filesProcessed + pr.filesSkipped + Len(pr.todo)
          /\ FailsAt(p) =>
               /\ Len(after.errors) = Len(pr.errors) + 1
               /\ SubSeq(after.errors, 1, Len(pr.errors)) = pr.errors
               /\ after.errors[Len(after.errors)].filePath = f
               /\ after.errors[Len(after.errors)].line = 0
               /\ after.filesSkipped = pr.filesSkipped + 1
               /\ after.filesProcessed = pr.filesProcessed
               /\ after.entries = pr.entries
               /\ after.todo = Tail(pr.todo)
          /\ ReadsAt(p) =>
               LET result == ParseFile(pr.kind, pr.processed, disk[f].content, f, pr.fileStat)
               IN /\ after.entries = pr.entries \o result.entries
                  /\ after.errors = pr.errors \o result.errors
                  /\ after.filesProcessed = pr.filesProcessed + 1
                  /\ after.filesSkipped = pr.filesSkipped]_vars

\* a scan at its return with one file failed and, after it, the other file
\* read: one scan-level error for the first, the entry and the line error of
\* the second
C20_Witness ==
  \E p \in Procs :
    /\ procs[p].pc = "save"
    /\ procs[p].filesSkipped = 1
    /\ procs[p].filesProcessed = 1
    /\ Len(procs[p].errors) = 2
    /\ procs[p].errors[1].filePath = FileOrder[1] /\ procs[p].errors[1].line = 0
    /\ procs[p].errors[2].filePath = FileOrder[2] /\ procs[p].errors[2].line = 1
    /\ Len(procs[p].entries) = 1
    /\ procs[p].entries[1].filePath = FileOrder[2]

\* ---- C21
\* no scan and no deletion is in flight
Quiet == \A p \in Procs : procs[p].pc = "idle"

\* the map and the rows hold the same paths with the same three values
Mirrors(map, table) == \A f \in Files : (map[f] = NoPF <=> table[f] = NoPF) /\ map[f].lastModifiedAt = table[f].lastModifiedAt /\ map[f].lastSize = table[f].lastSize /\ map[f].lastLineCount = table[f].lastLineCount

\* C21: after initialize(), whenever no scan or deletion is in flight, the
\* in-memory ProcessedFile map has the keys and the lastModifiedAt, lastSize
\* and lastLineCount of the persisted rows, also after a markFileProcessed
\* or deleteEntriesFromFile call has failed.
C21_MapMirrorsRows == (initialized /\ Quiet) => Mirrors(processedFiles, filesTable)

\* the same, as long as no repository call has failed
C21_MapMirrorsRowsWithoutFailure == (initialized /\ Quiet /\ dbFailures = <<>>) => Mirrors(processedFiles, filesTable)

\* ---- C22
\* the entries process p's step added to its result
Added(p) == SubSeq(procs'[p].entries, Len(procs[p].entries) + 1, Len(procs'[p].entries))

\* C22: in the scan a watch event for an existing file F triggers, the map
\* consulted is the service's map at that moment without F; F is never
\* skipped and is parsed from line 0 whatever its watermark, and every other
\* file is skipped or parsed from its offset according to its own watermark.
C22_OnlyChangedFileRescanned ==
  [][\A p \in Procs : (Stepped(p) /\ procs[p].kind = "watch") =>
       LET pr == procs[p]
           F == pr.target
           f == Head(pr.todo)
       IN /\ (pr.pc = "wstat" /\ disk[F].exists) =>
               /\ procs'[p].tmp[F] = NoPF
               /\ \A g \in Files \ {F} : procs'[p].tmp[g] = processedFiles[g]
          /\ (pr.pc = "stat" /\ disk[f].exists) =>
               IF f = F THEN procs'[p].pc = "read"
               ELSE (procs'[p].pc # "read") <=> Unchanged(pr.tmp[f], Stat(f))
          /\ (pr.pc = "read" /\ disk[f].exists) =>
               IF f = F THEN Added(p) = parseJSONLContent(disk[f].content, f, extractProjectPath(f), pr.fileStat.mtimeMs).entries
               ELSE Added(p) = ParseFile("watch", pr.tmp[f], disk[f].content, f, pr.fileStat).entries]_vars

\* a watch-triggered scan of a file that has a watermark of one line has
\* parsed that line again and has skipped the other file
C22_Witness ==
  \E p \in Procs :
    /\ procs[p].kind = "watch" /\ procs[p].pc = "save"
    /\ processedFiles[procs[p].target] # NoPF
    /\ processedFiles[procs[p].target].lastLineCount = 1
    /\ Len(disk[procs[p].target].content) = 1
    /\ Len(procs[p].entries) = 1
    /\ procs[p].entries[1].filePath = procs[p].target
    /\ procs[p].filesSkipped = 1
    /\ procs[p].filesProcessed = 1

\* ---- C23
\* C23: a saveEntries call in which the write of an entry fails leaves the
\* store exactly as it was; a call in which none fails stores every uuid of
\* the batch with the record the batch gives it, and leaves the records of
\* the other uuids as they were.
C23_SaveIsAllOrNothing ==
  [][IF dbFailures' # dbFailures
       THEN entriesTable' = entriesTable
       ELSE /\ \A i \in 1..Len(batch') : {r \in Rows(entriesTable') : r.uuid = batch'[i].uuid} = {LastOf(batch', batch'[i].uuid)}
            /\ \A r \in Rows(entriesTable) : (\A i \in 1..Len(batch') : batch'[i].uuid # r.uuid) => r \in Rows(entriesTable')]_vars

\* a batch of two entries new to a store that is not empty has failed, and
\* neither is stored
C23_Witness ==
  /\ dbFailures # <<>>
  /\ Len(batch) = 2
  /\ batch[1].uuid # batch[2].uuid
  /\ entriesTable # NoRows
  /\ \A i \in 1..2 : batch[i] \notin Rows(entriesTable)

\* ---- C24
\* the stored entries of a session that the listing's filter selects
SessionRows(sessionId) == {r \in Matching(entriesTable, listing.project) : r.sessionId = sessionId}

\* the entries of a session with its greatest timestamp
LastSeen(sessionId) == {r \in SessionRows(sessionId) : \A x \in SessionRows(sessionId) : x.timestamp <= r.timestamp}

\* every listed session has the minimum and maximum timestamp of its
\* entries as startTime and endTime
C24_SessionSpan ==
  \A k \in 1..Len(listing.sessions) :
    LET s == listing.sessions[k]
    IN /\ \E r \in SessionRows(s.sessionId) : r.timestamp = s.startTime
       /\ \E r \in SessionRows(s.sessionId) : r.timestamp = s.endTime
       /\ \A r \in SessionRows(s.sessionId) : s.startTime <= r.timestamp /\ r.timestamp <= s.endTime

\* C24: every listed session reports the model and the gitBranch of its
\* last-seen entry, the one with the greatest timestamp, and the minimum and
\* maximum timestamp of its entries as startTime and endTime.
C24_LastSeenModelAndBranch ==
  /\ C24_SessionSpan
  /\ \A k \in 1..Len(listing.sessions) :
        LET s == listing.sessions[k]
        IN \E r \in LastSeen(s.sessionId) : s.model = r.model /\ s.gitBranch = r.gitBranch

PriorCount(f) == IF processedFiles[f] = NoPF THEN 0 ELSE processedFiles[f].lastLineCount

\* C26: a scan that saved entries updates the record of every file it found
\* entries for; the update of a file that is still there sets lastLineCount
\* to the count the map held before plus the scan's entries for the file,
\* and lastModifiedAt and lastSize to the file's mtime and size at that
\* moment, writes the same record to the row, and touches no other record.
C26_WatermarkAdvance ==
  [][\A p \in Procs : Stepped(p) =>
       LET pr == procs[p]
       IN /\ (pr.pc = "save" /\ procs'[p].pc = "mark") =>
               {procs'[p].marks[i][1] : i \in 1..Len(procs'[p].marks)} = {f \in Files : CountFor(pr.entries, f) > 0}
          /\ (pr.pc = "mark" /\ disk[Head(pr.marks)[1]].exists) =>
               LET f == Head(pr.marks)[1]
               IN /\ processedFiles'[f].filePath = f
                  /\ processedFiles'[f].lastLineCount = PriorCount(f) + CountFor(pr.entries, f)
                  /\ processedFiles'[f].lastModifiedAt = disk[f].mtime
                  /\ processedFiles'[f].lastSize = Stat(f).size
                  /\ dbFailures' = dbFailures => filesTable'[f] = processedFiles'[f]
                  /\ \A g \in Files \ {f} : processedFiles'[g] = processedFiles[g] /\ filesTable'[g] = filesTable[g]]_vars

\* a file of two lines whose record counted one line has been scanned again
\* in full: its record counts three, with the file's present mtime and size
C26_Witness ==
  \E f \in Files :
    /\ disk[f].exists /\ Len(disk[f].content) = 2
    /\ processedFiles[f] # NoPF
    /\ processedFiles[f].lastLineCount = 3
    /\ processedFiles[f].lastModifiedAt = disk[f].mtime
    /\ processedFiles[f].lastSize = Stat(f).size
    /\ filesTable[f] = processedFiles[f]

\* ---- C27
\* process p is reading a file whose size is below the size in its record
ReadsShrunk(p) ==
  /\ procs[p].kind = "incr" /\ procs[p].pc = "read"
  /\ disk[Head(procs[p].todo)].exists
  /\ procs[p].processed # NoPF
  /\ procs[p].fileStat.size < procs[p].processed.lastSize

\* C27: an incremental scan that finds a file smaller than its record says
\* parses the file from line 0.
C27_ShrunkFileParsedInFull ==
  [][\A p \in Procs : (Stepped(p) /\ ReadsShrunk(p)) =>
       LET f == Head(procs[p].todo)
       IN Added(p) = parseJSONLContent(disk[f].content, f, extractProjectPath(f), procs[p].fileStat.mtimeMs).entries]_vars

\* ---- C28
\* what parseLine gives for line i of the input
Outcome(i) == parseLine(parseInput[i], ParsedPath, extractProjectPath(ParsedPath), 0, i)

\* every field of the entry has its value: the three required ones from the
\* line, the paths and the time from the arguments, the optional ones from
\* the line or their defaults
Populated(e, line) ==
  /\ e.uuid = line.uuid /\ e.uuid # ""
  /\ e.sessionId = line.sessionId /\ e.sessionId # ""
  /\ e.timestamp = DateParse(line.timestamp) /\ e.timestamp # NaN
  /\ e.projectPath = extractProjectPath(ParsedPath)
  /\ e.filePath = ParsedPath
  /\ e.fileModifiedAt = 0
  /\ e.role # "" /\ e.model # "" /\ e.gitBranch # "" /\ e.cwd # ""
  /\ e.inputTokens = OrZero(line.input_tokens)
  /\ e.outputTokens = OrZero(line.output_tokens)
  /\ e.cacheCreationInputTokens = OrZero(line.cache_creation_input_tokens)
  /\ e.cacheReadInputTokens = OrZero(line.cache_read_input_tokens)
  /\ e.totalTokens \in Nat
  /\ e.costUsd = OrZero(line.costUSD)

\* C28: for every line of a parsed input parseLine gives (null, null) when the
\* line is blank, (entry, null) with every field of the entry set when the
\* line is valid, and (null, error) for any other line; never an entry with
\* an error, and what the batch parser returns holds only whole entries.
C28_ThreeOutcomes ==
  parsed # "none" =>
    /\ \A i \in 1..Len(parseInput) :
         LET r == Outcome(i)
             line == parseInput[i]
         IN /\ ~(r.entry # NoEntry /\ r.error # NoError)
            /\ line.k = "blank" => (r.entry = NoEntry /\ r.error = NoError)
            /\ IsGoodLine(line) => (r.error = NoError /\ Populated(r.entry, line))
            /\ IsBadLine(line) => (r.entry = NoEntry /\ r.error # NoError /\ r.error.filePath = ParsedPath /\ r.error.line = i)
    /\ \A k \in 1..Len(parseResult.entries) : \E i \in 1..Len(parseInput) : Populated(parseResult.entries[k], parseInput[i])

\* a blank line, a valid line and a line whose timestamp does not parse have
\* been parsed: one entry, one error for line 3
C28_Witness ==
  /\ parsed = "all"
  /\ parseInput = <<BlankLine, PlainLine, JsonLine("a", "s1", "yesterday")>>
  /\ Len(parseResult.entries) = 1
  /\ parseResult.entries[1].uuid = "b"
  /\ Len(parseResult.errors) = 1
  /\ parseResult.errors[1].line = 3

\* ---- C29
\* C29: the steps of a scan (listing, stat, read) and the copy-and-evict
\* step of the watch path leave the service's map as it is; a record of the
\* map changes only when updateProcessedFilesFromScan sets it, when the watch
\* path deletes the record of a missing file, or when initialize() installs
\* the records it loaded; the eviction of the changed file shows in the
\* copy alone.
C29_ScansLeaveMapAlone ==
  [][/\ \A p \in Procs : (Stepped(p) /\ procs[p].pc \in {"list", "stat", "read", "wstat"}) => processedFiles' = processedFiles
     /\ \A f \in Files : processedFiles'[f] # processedFiles[f] =>
          \/ \E p \in Procs : Stepped(p) /\ procs[p].pc = "mark" /\ Head(procs[p].marks)[1] = f /\ processedFiles'[f] # NoPF
          \/ \E p \in Procs : Stepped(p) /\ procs[p].pc = "delete" /\ procs[p].target = f /\ processedFiles'[f] = NoPF
          \/ \E p \in Procs : Stepped(p) /\ procs[p].pc = "load" /\ processedFiles' = filesTable
     /\ \A p \in Procs : (Stepped(p) /\ procs[p].pc = "wstat" /\ disk[procs[p].target].exists) =>
          /\ procs'[p].tmp[procs[p].target] = NoPF
          /\ \A g \in Files : processedFiles'[g] = processedFiles[g]]_vars

\* a watch-triggered scan is under way for a file that has a record: the
\* copy lacks the record, the service's map still holds it
C29_Witness ==
  \E p \in Procs :
    /\ procs[p].kind = "watch" /\ procs[p].pc \in {"list", "stat", "read"}
    /\ procs[p].tmp[procs[p].target] = NoPF
    /\ processedFiles[procs[p].target] # NoPF
    /\ processedFiles[procs[p].target].lastLineCount > 0

\* ---- C30
RECURSIVE SumField(_, _)
\* the sum of one field over the rows of a report
SumField(report, field) == IF report = <<>> THEN 0 ELSE Head(report)[field] + SumField(Tail(report), field)

\* the uuids of the stored entries
StoredKeys == {r.uuid : r \in Rows(entriesTable)}

RECURSIVE KeyTotal(_, _)
\* the sum of one column over the stored entries, one entry for each uuid
KeyTotal(keys, column) ==
  IF keys = {} THEN 0
  ELSE LET u == CHOOSE k \in keys : TRUE
       IN (CHOOSE r \in Rows(entriesTable) : r.uuid = u)[column] + KeyTotal(keys \ {u}, column)

\* C30: whatever saves and deletions came before, the totals asked for are
\* those of the stored entries, each counted once: the requestCounts of the
\* billing blocks sum to getTotalEntryCount, which is the number of stored
\* entries; the totalTokens of the projects, and of the blocks, sum to the
\* tokens of the stored entries, and their costs to getTotalCost; an entry of
\* the last batch that a later one of the batch overwrote is not stored.
C30_AggregatesFromCurrentRows ==
  [][totals' # totals =>
       /\ SumField(totals'.blocks, "requestCount") = totals'.entryCount
       /\ totals'.entryCount = Cardinality(StoredKeys)
       /\ SumField(totals'.projects, "totalTokens") = KeyTotal(StoredKeys, "totalTokens")
       /\ SumField(totals'.blocks, "totalTokens") = KeyTotal(StoredKeys, "totalTokens")
       /\ SumField(totals'.projects, "costUsd") = totals'.cost
       /\ SumField(totals'.blocks, "costUsd") = totals'.cost
       /\ totals'.cost = KeyTotal(StoredKeys, "costUsd")
       /\ \A i \in 1..Len(batch) : batch[i] # LastOf(batch, batch[i].uuid) => batch[i] \notin Rows(entriesTable)]_vars

\* an entry was saved and overwritten in one batch by an entry of two tokens
\* in the second block, beside an entry of one token in the other project:
\* two entries, two blocks, two projects, three tokens
C30_Witness ==
  /\ totals.asked
  /\ batch = <<TotalsEntry("a", FileOrder[1], FALSE), TotalsEntry("a", FileOrder[1], TRUE)>>
  /\ Rows(entriesTable) = {TotalsEntry("a", FileOrder[1], TRUE), TotalsEntry("b", FileOrder[2], FALSE)}
  /\ totals.entryCount = 2
  /\ Len(totals.blocks) = 2
  /\ Len(totals.projects) = 2
  /\ SumField(totals.projects, "totalTokens") = 3

\* ---- C31
\* C31: a record written by updateProcessedFilesFromScan holds a
\* lastLineCount that is at most the number of lines of the file at that
\* moment (counted as the parser counts them, the segment after the last
\* newline included).
C31_WatermarkWithinFile ==
  [][\A p \in Procs : (Stepped(p) /\ procs[p].pc = "mark" /\ disk[Head(procs[p].marks)[1]].exists) =>
       LET f == Head(procs[p].marks)[1]
       IN processedFiles'[f].lastLineCount <= Len(SplitLines(disk[f].content))]_vars

\* ---- C32
\* every valid line of the file is stored as a row of the file
AllStored(f) == \A i \in 1..Len(disk[f].content) : IsGoodLine(disk[f].content[i]) => \E r \in Rows(entriesTable) : r.uuid = disk[f].content[i].uuid /\ r.filePath = f

\* C32: when an incremental scan skips a file as unchanged, every valid line
\* the file holds is stored.
C32_SkippedFilesAreStored ==
  [][\A p \in Procs : (Stepped(p) /\ procs[p].kind = "incr" /\ procs[p].pc = "stat") =>
       LET f == Head(procs[p].todo)
       IN (disk[f].exists /\ Unchanged(processedFiles[f], Stat(f))) => AllStored(f)]_vars

\* ---- C33
\* C33: when the periodic scans go on for ever (the timer stays armed) and
\* no repository call fails, every file that has stopped changing has all
\* its valid lines stored from some moment on.
C33_EventualIngestion ==
  \A f \in Files : (<>[]scanIntervalTimer) => []<>(disk[f].exists => AllStored(f))

\* ---- C34
\* no scan, deletion or initialize() is under way
AllFinished == \A p \in Procs : procs[p].pc = "idle"

\* C34: when the watch-triggered deletion of a missing file has completed,
\* the file has stayed missing and every scan has finished, there is no
\* entry of the file and no record of it, in the table or in the map.
C34_DeletedStaysDeleted ==
  \A F \in Files : (F \in deleted /\ ~disk[F].exists /\ AllFinished) =>
    /\ \A r \in Rows(entriesTable) : r.filePath # F
    /\ filesTable[F] = NoPF
    /\ processedFiles[F] = NoPF

\* ---- C35
\* the watcher holds no subscription and no debounce timer
HoldsNothing == watchers = {} /\ \A f \in Files : debounceTimers[f] = NoTimer

\* C35: a watcher that is not watching (never started, stopped, or started
\* with no directory to watch) holds no subscription and no pending timer;
\* while it goes on watching, a start() included, its subscriptions stay as
\* they are; each path has at most one timer, with at most DEBOUNCE_MS left,
\* and a notification for a path replaces the path's timer.
C35_IdleWatcherHoldsNothing ==
  /\ [](~isWatching => HoldsNothing)
  /\ [](\A f \in Files : debounceTimers[f] \in {NoTimer} \cup (0..DEBOUNCE_MS))
  /\ [][/\ (isWatching /\ isWatching') => watchers' = watchers
        /\ \A f \in Files : (rawCount' # rawCount /\ sinceRaw'[f] = 0 /\ debounceTimers'[f] # debounceTimers[f]) => debounceTimers'[f] = DEBOUNCE_MS]_vars

\* the watcher was stopped while a timer was pending for each of the two
\* paths
C35_Witness ==
  /\ ~isWatching
  /\ HoldsNothing
  /\ \A f \in Files : cancelCount[f] > 0 /\ burstCount[f] > 0

\* ---- C36
\* C36: whatever the order of initialize(), startWatching(), stopWatching()
\* and dispose() calls and of the continuations of suspended initialize()
\* calls, at most one interval timer is set and not cleared and at most one
\* subscription per directory is open; the timer field says whether a timer
\* runs; a timer runs only with a scanIntervalMs above 0, and subscriptions
\* are open only while the watcher is watching.
C36_OneTimerOneWatcher ==
  /\ handles.intervals = (IF scanIntervalTimer THEN 1 ELSE 0)
  /\ handles.subscriptions = Cardinality(watchers)
  /\ handles.subscriptions <= Cardinality(ConfigDirs)
  /\ scanIntervalTimer => options.scanIntervalMs > 0
  /\ handles.subscriptions > 0 => isWatching

\* two initialize() calls were suspended together and both have gone on to
\* startWatching() and startPeriodicScan(): one timer, one subscription
C36_Witness ==
  /\ ops = <<"initialize", "initialize">>
  /\ calls = 2
  /\ \A p \in Procs : procs[p].pc = "idle"
  /\ initialized /\ scanIntervalTimer /\ isWatching
  /\ handles = [intervals |-> 1, subscriptions |-> 1]

\* ---- C37
\* C37: a deleteEntriesFromFile(F), whether it returns or throws, leaves
\* every entry of another file stored as it was, adds no entry, and leaves
\* the ProcessedFile row and the map entry of every other file as they were.
C37_DeletionTouchesOnlyItsFile ==
  [][\A p \in Procs : (procs[p].pc = "delete" /\ Stepped(p)) =>
       LET F == procs[p].target
       IN /\ \A r \in Rows(entriesTable) : r.filePath # F => (r \in Rows(entriesTable') /\ entriesTable'[r] = entriesTable[r])
          /\ Rows(entriesTable') \subseteq Rows(entriesTable)
          /\ \A g \in Files \ {F} : filesTable'[g] = filesTable[g] /\ processedFiles'[g] = processedFiles[g]]_vars

\* the deletion path is about to delete a missing file that has an entry
\* and a record, while the other file has an entry and a record too
C37_Witness ==
  \E p \in Procs : \E g \in Files :
    /\ procs[p].pc = "delete" /\ g # procs[p].target
    /\ ~disk[procs[p].target].exists
    /\ filesTable[procs[p].target] # NoPF /\ filesTable[g] # NoPF /\ processedFiles[g] # NoPF
    /\ \E r \in Rows(entriesTable) : r.filePath = procs[p].target
    /\ \E r \in Rows(entriesTable) : r.filePath = g

\* ---- C38
\* what parseJSONLContent returns for the whole input
WholeParse == parseJSONLContent(parseInput, ParsedPath, extractProjectPath(ParsedPath), 0)

\* what parseJSONLContent returns for the lines of the input before the offset
HeadParse == parseJSONLContent(SubSeq(parseInput, 1, IF parseStart < Len(parseInput) THEN parseStart ELSE Len(parseInput)), ParsedPath, extractProjectPath(ParsedPath), 0)

\* C38: parseJSONLContentFromLine(content, s) returns the entries that
\* parseJSONLContent(content) returns after those of the first s lines, and
\* its errors for the lines after the first s, in the same order and with the
\* same line numbers; with s = 0 it returns what parseJSONLContent returns,
\* with s at or above the number of lines nothing; its lineCount is the
\* number of segments of content.split("\n") whatever s is.
C38_FromLineIsSuffix ==
  parsed = "from" =>
    /\ WholeParse.entries = HeadParse.entries \o parseResult.entries
    /\ parseResult.errors = SelectSeq(WholeParse.errors, LAMBDA e : e.line > parseStart)
    /\ parseStart = 0 => (parseResult.entries = WholeParse.entries /\ parseResult.errors = WholeParse.errors)
    /\ parseStart >= Len(SplitLines(parseInput)) => (parseResult.entries = <<>> /\ parseResult.errors = <<>>)
    /\ parseResult.lineCount = Len(parseInput) + 1

\* [malformed, valid, malformed] parsed from offset 1: the entry of line 2
\* and the error of line 3
C38_Witness ==
  /\ parsed = "from"
  /\ parseStart = 1
  /\ parseInput = <<NotJsonLine, TokenLine, NotJsonLine>>
  /\ Len(parseResult.entries) = 1
  /\ Len(parseResult.errors) = 1
  /\ parseResult.errors[1].line = 3

====
